---- MODULE Spec2Model ----
(***************************************************************************)
(* smallz4: LZ4 compressor with optimal parsing (smallz4.h, class smallz4), *)
(* and the decoder unlz4 (smallz4cat.c).                                    *)
(*                                                                          *)
(* Bytes are integers 0..255.  A buffer is a sequence of bytes; the byte at *)
(* absolute input position p is data[p - dataZero + 1].                     *)
(*                                                                          *)
(* The window constants of the source (MaxDistance = 65535, PreviousSize =  *)
(* BufferSize = 64 KiB, MaxBlockSize = 4 MiB, MaxSameLetter = 19 + 255*256) *)
(* are scaled down, keeping their relations: PreviousSize = MaxDistance + 1,*)
(* BufferSize = PreviousSize, MaxBlockSize a multiple of PreviousSize,      *)
(* BlockEndNoMatch <= MaxDistance, 19 <= MaxSameLetter < MaxDistance.       *)
(*                                                                          *)
(* A loop of the source is an operator XLoop(.., st, n): n iterations of    *)
(* the loop body XStep on the loop's variables st, the first half of them   *)
(* complete before the second half starts; st.done says the loop was left.  *)
(***************************************************************************)
EXTENDS Integers, Sequences, FiniteSets, TLC

\* ------------------------------------------------------------------------
\* constants of smallz4.h

MinMatch == 4
BlockEndNoMatch == 12
BlockEndLiterals == 5
HashBits == 20
ShortChainsGreedy == 3
ShortChainsLazy == 6
NoPrevious == 0
\* smallz4.h:111  MaxChainLength = NoPrevious
MaxChainLength == NoPrevious
NoLastHash == 2147483647

\* maximum match distance (65535 in the source), scaled
MaxDistance == 31
\* MaxSameLetter (19 + 255*256 in the source), scaled: the shortest match
\* with an extra length byte, as in the source a length 19 + 255*k
MaxSameLetter == 19

PreviousSize == MaxDistance + 1
BufferSize == PreviousSize
\* 64 * PreviousSize in the source
MaxBlockSize == 2 * PreviousSize
\* HISTORY_SIZE of smallz4cat.c (64*1024), scaled with the window
HISTORY_SIZE == PreviousSize

HashSize == 2 ^ HashBits
\* HashMultiplier = 22695477 = HashMulHi * 2^16 + HashMulLo
HashMulHi == 346
HashMulLo == 20021

\* ------------------------------------------------------------------------
\* small helpers

Min(a, b) == IF a < b THEN a ELSE b

\* struct Match
Match(len, dist) == [length |-> len, distance |-> dist]

\* a variant that takes every entry with a length for a match
isMatchAnyLength(m) == m.length >= 1

isMatch(m) == m.length >= MinMatch

\* The input buffer: data (a sequence), dataZero (absolute position of
\* data[0]) and junk, the byte a read outside the buffer yields.
Buf(data, dataZero, junk) == [data |-> data, dataZero |-> dataZero, junk |-> junk]

\* byte at absolute position p: data[p - dataZero]
At(D, p) ==
  IF p - D.dataZero >= 0 /\ p - D.dataZero < Len(D.data)
    THEN D.data[p - D.dataZero + 1]
    ELSE D.junk

\* *(uint32_t*)(data + p): the four bytes at p (little endian)
Four(D, p) == <<At(D, p), At(D, p + 1), At(D, p + 2), At(D, p + 3)>>

\* match4: the four bytes at a and at b are the same
match4(D, a, b) == Four(D, a) = Four(D, b)

\* ((four * HashMultiplier) >> HashShift) & (HashSize - 1): bits 12..31 of
\* the product, computed in 16-bit halves
Hash(four) ==
  LET lo == four[1] + 256 * four[2]
      hi == four[3] + 256 * four[4]
      p  == HashMulLo * lo
      q  == (HashMulHi * lo + HashMulLo * hi) % 65536
  IN  ((p \div 4096) + q * 16) % HashSize

\* lastHash is kept sparse: an absent key holds NoLastHash
GetLast(lastHash, h) == IF h \in DOMAIN lastHash THEN lastHash[h] ELSE NoLastHash

PutLast(lastHash, h, p) == (h :> p) @@ lastHash

\* ------------------------------------------------------------------------
\* findLongestMatch (smallz4.h:167-252), positions are absolute

\* phase 1: "all bytes between current and atLeast shall be identical":
\* compare = atLeast - 4, atLeast - 8, .. as long as compare > current
ScanBackward(D, atLeast, current, totalDistance) ==
  \A k \in 1..((atLeast - current) \div 4 + 1) :
     atLeast - 4 * k > current
       => match4(D, atLeast - 4 * k, atLeast - 4 * k - totalDistance)

\* phase 2, fast loop: four bytes at once; where the loop stops
ScanForward4(D, compare, stop, totalDistance) ==
  LET Goes(c) == c + 4 <= stop /\ match4(D, c, c - totalDistance)
      steps == CHOOSE k \in 0..MaxBlockSize :
                 /\ ~Goes(compare + 4 * k)
                 /\ \A j \in 0..(k - 1) : Goes(compare + 4 * j)
  IN compare + 4 * steps

\* phase 2, slow loop: the last 1/2/3 bytes; where the loop stops
ScanForward1(D, compare, stop, totalDistance) ==
  LET Goes(c) == c < stop /\ At(D, c) = At(D, c - totalDistance)
      steps == CHOOSE k \in 0..MaxBlockSize :
                 /\ ~Goes(compare + k)
                 /\ \A j \in 0..(k - 1) : Goes(compare + j)
  IN compare + steps

\* one iteration of "while (distance != NoPrevious)"; cw: distance,
\* totalDistance, stepsLeft and result.  cw.visited lists the totalDistance
\* whose entry of previous was read (not a variable of the source).
ChainStep(D, pos, end, previous, cw) ==
  LET totalDistance == cw.totalDistance + cw.distance
      next     == previous[(pos - totalDistance) % PreviousSize]
      atLeast  == pos + cw.result.length + 1
      compare  == ScanForward1(D, ScanForward4(D, atLeast, end, totalDistance),
                               end, totalDistance)
      advanced == [cw EXCEPT !.totalDistance = totalDistance, !.distance = next,
                             !.stepsLeft = @ - 1,
                             !.visited = @ \cup {totalDistance}]
  IN
  IF cw.done THEN cw
  ELSE IF cw.distance = NoPrevious THEN [cw EXCEPT !.done = TRUE]
  ELSE IF totalDistance > MaxDistance THEN [cw EXCEPT !.done = TRUE]
  ELSE IF cw.stepsLeft <= 0
    THEN [cw EXCEPT !.visited = @ \cup {totalDistance}, !.done = TRUE]
  ELSE IF atLeast > end
    THEN [cw EXCEPT !.visited = @ \cup {totalDistance}, !.done = TRUE]
  ELSE IF ~ScanBackward(D, atLeast, pos, totalDistance) THEN advanced
  ELSE [advanced EXCEPT !.result = Match(compare - pos, totalDistance)]

RECURSIVE ChainLoop(_, _, _, _, _, _)
ChainLoop(D, pos, end, previous, cw, n) ==
  IF n <= 1 THEN ChainStep(D, pos, end, previous, cw)
  ELSE LET half == ChainLoop(D, pos, end, previous, cw, n \div 2)
       IN IF half.done THEN half
          ELSE ChainLoop(D, pos, end, previous, half, n - (n \div 2))

\* result.distance is not initialised: noDist is what it happens to hold.
\* Every iteration but the last adds a distance >= 1 to totalDistance and
\* the loop is left above MaxDistance: MaxDistance + 1 iterations at most.
ChainWalk(D, pos, end, previous, maxChain, noDist) ==
  ChainLoop(D, pos, end, previous,
            [distance |-> previous[pos % PreviousSize], totalDistance |-> 0,
             stepsLeft |-> maxChain, result |-> Match(1, noDist), visited |-> {},
             done |-> FALSE],
            MaxDistance + 1)

findLongestMatch(D, pos, end, previous, maxChain, noDist) ==
  ChainWalk(D, pos, end, previous, maxChain, noDist).result

\* ------------------------------------------------------------------------
\* selectBestMatches (smallz4.h:257-355)

\* the extra length bytes of a literal run or a match: n >= 15, 15 is already
\* in the token; 255 until the remainder is below 255, then the remainder
\* a variant that leaves out the last byte when it is 0
LengthBytesNoZero(n) ==
  IF n >= 15
    THEN [k \in 1..((n - 15) \div 255) |-> 255]
         \o (IF (n - 15) % 255 = 0 THEN <<>> ELSE <<(n - 15) % 255>>)
    ELSE <<>>

LengthBytes(n) ==
  IF n >= 15
    THEN [k \in 1..((n - 15) \div 255) |-> 255] \o <<(n - 15) % 255>>
    ELSE <<>>

\* a variant that copies from the start of the block
LiteralsOfStart(D, base, from, to) == [k \in 1..(to - from) |-> At(D, base + k - 1)]

\* data + literalsFrom .. data + literalsTo of the block that starts at base
Literals(D, base, from, to) == [k \in 1..(to - from) |-> At(D, base + from + k - 1)]

\* one iteration of "for (size_t offset = 0; offset < matches.size(); )";
\* sb: offset, literalsFrom, literalsTo and result.  sb.taken lists the
\* matches written so far (not a variable of the source).
SelectStep(matches, size, D, base, sb) ==
  LET offset  == sb.offset
      literal == ~isMatch(matches[offset])
      first   == literal /\ sb.literalsFrom = sb.literalsTo
      from    == IF first THEN offset ELSE sb.literalsFrom
      to      == (IF first THEN offset ELSE sb.literalsTo) + (IF literal THEN 1 ELSE 0)
      match   == IF literal THEN Match(1, matches[offset].distance) ELSE matches[offset]
      next    == offset + match.length
      lastToken   == (next = size)
      numLiterals == to - from
      matchLength == match.length - 4
      token == 16 * Min(numLiterals, 15)
               + (IF lastToken THEN 0 ELSE Min(matchLength, 15))
      withLiterals == Append(sb.result, token) \o LengthBytes(numLiterals)
                      \o Literals(D, base, from, to)
      flushed == [sb EXCEPT !.offset = next,
                            !.literalsFrom = IF from # to THEN 0 ELSE from,
                            !.literalsTo = IF from # to THEN 0 ELSE to]
  IN
  IF sb.done THEN sb
  ELSE IF offset >= size THEN [sb EXCEPT !.done = TRUE]
  ELSE IF literal /\ ~lastToken
    THEN [sb EXCEPT !.offset = next, !.literalsFrom = from, !.literalsTo = to]
  ELSE IF lastToken
    THEN [flushed EXCEPT !.result = withLiterals, !.done = TRUE]
  ELSE [flushed EXCEPT
          !.result = withLiterals
                     \o <<match.distance % 256, (match.distance \div 256) % 256>>
                     \o LengthBytes(matchLength),
          !.taken = Append(@, [offset |-> offset, length |-> match.length,
                               distance |-> match.distance])]

RECURSIVE SelectLoop(_, _, _, _, _, _)
SelectLoop(matches, size, D, base, sb, n) ==
  IF n <= 1 THEN SelectStep(matches, size, D, base, sb)
  ELSE LET half == SelectLoop(matches, size, D, base, sb, n \div 2)
       IN IF half.done THEN half
          ELSE SelectLoop(matches, size, D, base, half, n - (n \div 2))

\* the loop from offset 0: its result and the matches it wrote; every
\* iteration moves offset forward, size + 1 iterations at most
SelectAll(matches, size, D, base) ==
  SelectLoop(matches, size, D, base,
             [offset |-> 0, literalsFrom |-> 0, literalsTo |-> 0, result |-> <<>>,
              taken |-> <<>>, done |-> FALSE],
             size + 1)

selectBestMatches(matches, size, D, base) == SelectAll(matches, size, D, base).result

\* ------------------------------------------------------------------------
\* estimateCosts (smallz4.h:360-445)

\* a variant that forgets the extra bytes of a very long match
MatchCostFlat(length) == 1 + 2

\* cost of a match of this length: token (1 byte) + offset (2 bytes) and the
\* extra bytes of a very long match
MatchCost(length) == 1 + 2 + (IF length >= 19 THEN 1 + (length - 19) \div 255 ELSE 0)

\* a variant with "<": prefers literals and shorter matches
BetterStrict(currentCost, minCost) == currentCost < minCost

\* a variant that takes every match length tried
BetterAlways(currentCost, minCost) == TRUE

\* "better choice ?": currentCost <= minCost prefers longer matches
Better(currentCost, minCost) == currentCost <= minCost

\* one iteration of "for (Length length = MinMatch; length <= match.length;
\* length++)"; t: length, minCost and bestLength
TryStep(cost, i, match, t) ==
  LET currentCost == cost[i + t.length] + MatchCost(t.length)
      better == Better(currentCost, t.minCost)
  IN
  IF t.done THEN t
  ELSE IF t.length > match.length THEN [t EXCEPT !.done = TRUE]
  ELSE IF match.distance = 1 /\ match.length >= MaxSameLetter
    THEN [t EXCEPT !.bestLength = match.length,
                   !.minCost = cost[i + match.length] + 1 + 2 + 1
                               + (match.length - 19) \div 255,
                   !.done = TRUE]
  ELSE [t EXCEPT !.length = @ + 1,
                 !.minCost = IF better THEN currentCost ELSE @,
                 !.bestLength = IF better THEN t.length ELSE @]

RECURSIVE TryLoop(_, _, _, _, _)
TryLoop(cost, i, match, t, n) ==
  IF n <= 1 THEN TryStep(cost, i, match, t)
  ELSE LET half == TryLoop(cost, i, match, t, n \div 2)
       IN IF half.done THEN half
          ELSE TryLoop(cost, i, match, half, n - (n \div 2))

\* "try all match lengths (first short ones)": at most match.length steps
TryLengths(cost, i, match, literalCost) ==
  TryLoop(cost, i, match,
          [length |-> MinMatch, minCost |-> literalCost, bestLength |-> 1,
           done |-> FALSE],
          match.length)

\* a variant that lets a match end one byte into the last literals
ClampLengthLate(m, i, blockEnd) ==
  IF isMatch(m) /\ i + m.length + BlockEndLiterals > blockEnd + 1
    THEN Match(blockEnd + 1 - (i + BlockEndLiterals), m.distance)
    ELSE m

\* a variant that shortens every match by one byte
ClampLengthByOne(m, i, blockEnd) ==
  IF isMatch(m) THEN Match(m.length - 1, m.distance) ELSE m

\* "match must not cross block borders"
ClampLength(m, i, blockEnd) ==
  IF isMatch(m) /\ i + m.length + BlockEndLiterals > blockEnd
    THEN Match(blockEnd - (i + BlockEndLiterals), m.distance)
    ELSE m

\* one iteration of "for (int i = blockEnd - (1 + BlockEndLiterals); i >= 0;
\* i--)"; cs: i, matches, cost and posLastMatch
CostStep(blockEnd, cs) ==
  LET i == cs.i
      numLiterals == cs.posLastMatch - i
      literalCost == cs.cost[i + 1] + 1
                     + (IF numLiterals >= 15 /\ (numLiterals - 15) % 255 = 0 THEN 1 ELSE 0)
      match == ClampLength(cs.matches[i], i, blockEnd)
      best  == TryLengths(cs.cost, i, match, literalCost)
  IN
  IF cs.done THEN cs
  ELSE IF i < 0 THEN [cs EXCEPT !.done = TRUE]
  ELSE [cs EXCEPT
          !.i = i - 1,
          !.posLastMatch = IF best.bestLength >= MinMatch THEN i ELSE @,
          !.cost[i] = best.minCost,
          !.matches[i] = Match(best.bestLength,
                               IF best.bestLength = 1 THEN NoPrevious ELSE @.distance)]

RECURSIVE CostLoop(_, _, _)
CostLoop(blockEnd, cs, n) ==
  IF n <= 1 THEN CostStep(blockEnd, cs)
  ELSE LET half == CostLoop(blockEnd, cs, n \div 2)
       IN IF half.done THEN half
          ELSE CostLoop(blockEnd, half, n - (n \div 2))

\* the rewritten matches and the cost array; blockEnd iterations at most
estimateCosts(matches, blockEnd) ==
  CostLoop(blockEnd,
           [i |-> blockEnd - (1 + BlockEndLiterals), matches |-> matches,
            cost |-> [k \in 0..(blockEnd - 1) |-> 0], posLastMatch |-> blockEnd,
            done |-> FALSE],
           blockEnd)

\* ------------------------------------------------------------------------
\* the match finder of compress (smallz4.h:558-698)

\* a variant that only keeps the last BlockEndLiterals positions free
AtBlockEndLiterals(i, blockSize) == i + BlockEndLiterals > blockSize

\* the test of smallz4.cpp:454, which also keeps position blockSize - 12 free
AtBlockEndInclusive(i, blockSize) == i + BlockEndNoMatch >= blockSize

\* "no matches at the end of the block"
AtBlockEnd(i, blockSize) == i + BlockEndNoMatch > blockSize

\* the end handed to findLongestMatch
MatchEnd(nextBlock) == nextBlock - BlockEndLiterals + 1

\* "the last literals of the previous block skipped matching": how far the
\* loop starts before the block (no dictionary, no legacy format)
Lookback(dataZero) == IF dataZero > BlockEndNoMatch THEN BlockEndNoMatch ELSE dataZero

\* vector<Match> matches(blockSize): value-initialised
NewMatches(blockSize) == [k \in 0..(blockSize - 1) |-> Match(0, 0)]

\* one iteration of the while loop that skips pseudo-matches (hash
\* collisions); ec: distance, last and previousHash.  last is a size_t:
\* below zero it is not "< dataZero".  ec.read lists the positions where
\* curFour was read (not a variable of the source).
ExactStep(D, four, hash, ec) ==
  LET curFour == Four(D, ec.last)
      next    == ec.previousHash[ec.last % PreviousSize]
  IN
  IF ec.done THEN ec
  ELSE IF ec.distance = NoPrevious THEN [ec EXCEPT !.done = TRUE]
  ELSE IF curFour = four THEN [ec EXCEPT !.read = @ \cup {ec.last}, !.done = TRUE]
  ELSE IF Hash(curFour) # hash
    THEN [ec EXCEPT !.distance = NoPrevious, !.read = @ \cup {ec.last}, !.done = TRUE]
  ELSE IF ec.distance + next > MaxDistance
    THEN [ec EXCEPT !.previousHash[ec.last % PreviousSize] = NoPrevious,
                    !.distance = NoPrevious, !.read = @ \cup {ec.last}, !.done = TRUE]
  ELSE IF next = NoPrevious \/ (ec.last - next >= 0 /\ ec.last - next < D.dataZero)
    THEN [ec EXCEPT !.distance = NoPrevious, !.read = @ \cup {ec.last}, !.done = TRUE]
  ELSE [ec EXCEPT !.distance = @ + next, !.last = @ - next, !.read = @ \cup {ec.last}]

RECURSIVE ExactLoop(_, _, _, _, _)
ExactLoop(D, four, hash, ec, n) ==
  IF n <= 1 THEN ExactStep(D, four, hash, ec)
  ELSE LET half == ExactLoop(D, four, hash, ec, n \div 2)
       IN IF half.done THEN half
          ELSE ExactLoop(D, four, hash, half, n - (n \div 2))

\* the distance of the exact predecessor (or NoPrevious) and the pruned
\* previousHash; every iteration but the last adds next >= 1 to distance
ExactChain(D, four, hash, previousHash, last, distance) ==
  ExactLoop(D, four, hash,
            [distance |-> distance, last |-> last, previousHash |-> previousHash,
             read |-> {}, done |-> FALSE],
            MaxDistance + 1)

\* "detect self-matching": the predecessor's match is copied, one byte shorter
SelfMatch(D, pos, i, matches) ==
  /\ i > 0
  /\ At(D, pos) = At(D, pos - 1)
  /\ matches[i - 1].distance = 1
  /\ matches[i - 1].length > MaxSameLetter

\* One iteration of "for (int i = lookback; i < (int)blockSize; i++)".
\* st: i, the three tables, the block's matches, skipMatches, lazyEvaluation.
\* st.reached lists the i that came to "skip match finding if in greedy mode",
\* st.searched those where findLongestMatch ran, st.writtenBy the position
\* that wrote each entry of previousExact, st.walks the positions the walks of
\* findLongestMatch came to and whether that position wrote the entry read
\* there, st.read the positions where four and curFour were read, st.ended
\* whether the loops over the chains came to their end (not variables of the
\* source).
FinderStep(D, lastBlock, nextBlock, maxChain, noDist, st) ==
  LET i         == st.i
      blockSize == nextBlock - lastBlock
      pos       == i + lastBlock
      isGreedy  == maxChain <= ShortChainsGreedy
      isLazy    == ~isGreedy /\ maxChain <= ShortChainsLazy
      four      == Four(D, pos)
      hash      == Hash(four)
      last      == GetLast(st.lastHash, hash)
      prevIndex == (i + PreviousSize) % PreviousSize
      distance  == pos - last
      stepped   == [st EXCEPT !.i = i + 1]
      hashed    == [stepped EXCEPT !.lastHash = PutLast(st.lastHash, hash, pos),
                                   !.read = @ \cup {pos}]
      chain     == ExactChain(D, four, hash,
                              [st.previousHash EXCEPT ![prevIndex] = distance],
                              last, distance)
      chained   == [hashed EXCEPT !.previousHash = chain.previousHash,
                                  !.previousExact[prevIndex] = chain.distance,
                                  !.writtenBy[prevIndex] = pos,
                                  !.read = @ \cup chain.read,
                                  !.ended = @ /\ chain.done]
      skipping  == st.skipMatches > 0
      searching == IF skipping
                     THEN [chained EXCEPT !.skipMatches = @ - 1, !.lazyEvaluation = FALSE]
                     ELSE chained
      walk      == ChainWalk(D, pos, MatchEnd(nextBlock), chained.previousExact,
                             maxChain, noDist)
      longest   == walk.result
      walked    == {[pos |-> pos, total |-> t,
                     own |-> chained.writtenBy[(pos - t) % PreviousSize] = pos - t] :
                    t \in walk.visited}
      skipNext  == isMatch(longest) /\ (isLazy \/ isGreedy)
  IN
  IF st.done THEN st
  ELSE IF i >= blockSize THEN [st EXCEPT !.done = TRUE]
  ELSE IF AtBlockEnd(i, blockSize) \/ maxChain = 0 THEN stepped
  ELSE IF SelfMatch(D, pos, i, st.matches)
    THEN [stepped EXCEPT !.matches[i] = Match(st.matches[i - 1].length - 1,
                                              st.matches[i - 1].distance)]
  ELSE IF last = NoLastHash \/ distance > MaxDistance \/ distance < 0
    THEN [hashed EXCEPT !.previousHash[prevIndex] = NoPrevious,
                        !.previousExact[prevIndex] = NoPrevious,
                        !.writtenBy[prevIndex] = pos]
  ELSE IF chain.distance = NoPrevious THEN chained
  ELSE IF i < 0 THEN chained
  ELSE IF skipping /\ ~st.lazyEvaluation
    THEN [chained EXCEPT !.skipMatches = @ - 1, !.reached = @ \cup {i}]
  ELSE [searching EXCEPT !.matches[i] = longest,
                         !.reached = @ \cup {i}, !.searched = @ \cup {i},
                         !.walks = @ \cup walked,
                         !.ended = @ /\ walk.done,
                         !.lazyEvaluation = IF skipNext THEN (searching.skipMatches = 0) ELSE @,
                         !.skipMatches = IF skipNext THEN longest.length ELSE @]

RECURSIVE FinderLoop(_, _, _, _, _, _, _)
FinderLoop(D, lastBlock, nextBlock, maxChain, noDist, st, n) ==
  IF n <= 1 THEN FinderStep(D, lastBlock, nextBlock, maxChain, noDist, st)
  ELSE LET half == FinderLoop(D, lastBlock, nextBlock, maxChain, noDist, st, n \div 2)
       IN IF half.done THEN half
          ELSE FinderLoop(D, lastBlock, nextBlock, maxChain, noDist, half,
                          n - (n \div 2))

\* the whole match finder of one block: lookback + blockSize iterations
findMatches(D, lastBlock, nextBlock, maxChain, noDist, lastHash, previousHash, previousExact, writtenBy) ==
  FinderLoop(D, lastBlock, nextBlock, maxChain, noDist,
             [i |-> 0 - Lookback(D.dataZero),
              lastHash |-> lastHash, previousHash |-> previousHash,
              previousExact |-> previousExact, writtenBy |-> writtenBy,
              matches |-> NewMatches(nextBlock - lastBlock),
              skipMatches |-> 0, lazyEvaluation |-> FALSE,
              reached |-> {}, searched |-> {}, walks |-> {}, read |-> {},
              ended |-> TRUE, done |-> FALSE],
             Lookback(D.dataZero) + (nextBlock - lastBlock) + 1)

\* "not needed in greedy mode and/or very short blocks"
NeedsCosts(size, maxChain) == size > BlockEndNoMatch /\ maxChain > ShortChainsGreedy

\* ------------------------------------------------------------------------
\* output of one block (smallz4.h:715-735)

\* a variant that never falls back to the raw block
UseCompressionAlways(blockLen, uncompressedSize, maxChain) == maxChain # 0

\* "did compression do harm ?"
UseCompression(blockLen, uncompressedSize, maxChain) ==
  blockLen < uncompressedSize /\ maxChain # 0

\* a variant that never tags the size
SizeWordUntagged(numBytes, useCompression) ==
  << numBytes % 256,
     (numBytes \div 256) % 256,
     (numBytes \div 65536) % 256,
     (numBytes \div 16777216) % 128 >>

\* numBytesTagged, sent as num1..num4 (little endian)
SizeWord(numBytes, useCompression) ==
  << numBytes % 256,
     (numBytes \div 256) % 256,
     (numBytes \div 65536) % 256,
     ((numBytes \div 16777216) % 128) + (IF useCompression THEN 0 ELSE 128) >>

\* magic, flags, maxBlockSizeId << 4, checksum
Header == <<4, 34, 77, 24, 64, 112, 223>>

\* a variant that forgets the empty block
TerminatorMissing == <<>>

\* "add an empty block"
Terminator == <<0, 0, 0, 0>>

\* ------------------------------------------------------------------------
\* unlz4 (smallz4cat.c:96-302)
\*
\* The decoder state d: in (the stream), idx (next byte of in), history and
\* pos, out (everything handed to sendBytes), err ("" until error() is called).

\* history[HISTORY_SIZE] is not initialised: junk is what it holds
NewDecoder(stream, junk) ==
  [in |-> stream, idx |-> 1, history |-> [k \in 0..(HISTORY_SIZE - 1) |-> junk],
   pos |-> 0, out |-> <<>>, err |-> ""]

Failed(d) == d.err # ""

\* getByte(): the byte read (0 when out of data) ...
Peek(d) == IF d.idx <= Len(d.in) THEN d.in[d.idx] ELSE 0

\* ... and the decoder after it: error("out of data") at the end of the input
Skip(d) ==
  IF Failed(d) THEN d
  ELSE IF d.idx <= Len(d.in) THEN [d EXCEPT !.idx = @ + 1]
  ELSE [d EXCEPT !.err = "out of data"]

RECURSIVE SkipN(_, _)
SkipN(d, n) == IF n = 0 THEN d ELSE SkipN(Skip(d), n - 1)

\* history[pos++] = b, and "flush output buffer" when pos == HISTORY_SIZE
Emit(d, b) ==
  LET h == [d.history EXCEPT ![d.pos] = b]
  IN IF d.pos + 1 = HISTORY_SIZE
       THEN [d EXCEPT !.history = h, !.pos = 0,
                      !.out = @ \o [k \in 1..HISTORY_SIZE |-> h[k - 1]]]
       ELSE [d EXCEPT !.history = h, !.pos = @ + 1]

\* do { current = getByte(); n += current; blockOffset++; } while (current == 255)
\* r: the decoder, the length n and blockOffset
RECURSIVE ReadLength(_)
ReadLength(r) ==
  LET current == Peek(r.d)
      next == [d |-> Skip(r.d), n |-> r.n + current, blockOffset |-> r.blockOffset + 1]
  IN IF Failed(next.d) THEN next
     ELSE IF current = 255 THEN ReadLength(next)
     ELSE next

\* while (numLiterals-- > 0) history[pos++] = getByte()
RECURSIVE CopyLiterals(_, _)
CopyLiterals(d, n) ==
  IF n <= 0 \/ Failed(d) THEN d
  ELSE IF n = 1 THEN (IF Failed(Skip(d)) THEN Skip(d) ELSE Skip(Emit(d, Peek(d))))
  ELSE LET half == CopyLiterals(d, n \div 2)
       IN IF Failed(half) THEN half ELSE CopyLiterals(half, n - (n \div 2))

\* a history index outside the array reads junk
HistoryAt(d, reference, junk) ==
  IF reference >= 0 /\ reference < HISTORY_SIZE THEN d.history[reference] ELSE junk

\* history[pos++] = history[reference++], both indices wrap at HISTORY_SIZE;
\* c: the decoder and reference
CopyStep(c, junk) ==
  [d |-> Emit(c.d, HistoryAt(c.d, c.reference, junk)),
   reference |-> IF c.reference + 1 = HISTORY_SIZE THEN 0 ELSE c.reference + 1]

\* "copy match": byte by byte.  (The fast copy of the source is the same
\* loop when neither index reaches the end of history.)
RECURSIVE CopyMatch(_, _, _)
CopyMatch(c, n, junk) ==
  IF n <= 0 THEN c
  ELSE IF n = 1 THEN CopyStep(c, junk)
  ELSE LET half == CopyMatch(c, n \div 2, junk)
       IN IF Failed(half.d) THEN half ELSE CopyMatch(half, n - (n \div 2), junk)

\* the token is done, or the decoder stopped in it; t: the decoder and
\* blockOffset before the token
TokenEnd(t, d) == [d |-> d, blockOffset |-> t.blockOffset, done |-> TRUE]

\* numLiterals: the token's high nibble and, at 15, the bytes that follow;
\* t: the decoder at the token and blockOffset
numLiterals(t) ==
  IF Peek(t.d) \div 16 = 15 /\ ~Failed(Skip(t.d))
    THEN ReadLength([d |-> Skip(t.d), n |-> 15, blockOffset |-> t.blockOffset + 1])
    ELSE [d |-> Skip(t.d), n |-> Peek(t.d) \div 16, blockOffset |-> t.blockOffset + 1]

\* matchLength: 4 + the token's low nibble and, at 15, the bytes after the
\* distance; copied: the decoder at the distance
matchLength(copied, blockOffset, token) ==
  IF token % 16 = 15
    THEN ReadLength([d |-> Skip(Skip(copied)), n |-> 4 + 15,
                     blockOffset |-> blockOffset + 2])
    ELSE [d |-> Skip(Skip(copied)), n |-> 4 + (token % 16),
          blockOffset |-> blockOffset + 2]

\* "copy match"; mat: the decoder, the match length n and blockOffset
TokenMatch(t, mat, delta, junk) ==
  IF Failed(mat.d) THEN TokenEnd(t, mat.d)
  ELSE [d |-> CopyMatch([d |-> mat.d,
                         reference |-> IF mat.d.pos >= delta
                                         THEN mat.d.pos - delta
                                         ELSE HISTORY_SIZE + mat.d.pos - delta],
                        mat.n, junk).d,
        blockOffset |-> mat.blockOffset, done |-> FALSE]

\* "last token has only literals", else the match distance ("zero isn't
\* allowed") and the match length; copied: the decoder after the literals
TokenOffset(t, copied, blockOffset, token, blockSize, junk) ==
  IF Failed(copied) THEN TokenEnd(t, copied)
  ELSE IF blockOffset = blockSize THEN TokenEnd(t, copied)
  ELSE IF Failed(Skip(Skip(copied))) THEN TokenEnd(t, Skip(Skip(copied)))
  ELSE IF Peek(copied) + 256 * Peek(Skip(copied)) = 0
    THEN TokenEnd(t, [Skip(Skip(copied)) EXCEPT !.err = "invalid offset"])
  ELSE TokenMatch(t, matchLength(copied, blockOffset, token),
                  Peek(copied) + 256 * Peek(Skip(copied)), junk)

\* "copy literals"; lit: the decoder, the number of literals n and
\* blockOffset
TokenLiterals(t, lit, token, blockSize, junk) ==
  IF Failed(lit.d) THEN TokenEnd(t, lit.d)
  ELSE TokenOffset(t, CopyLiterals(lit.d, lit.n), lit.blockOffset + lit.n,
                   token, blockSize, junk)

\* one iteration of "while (blockOffset < blockSize)": one token; t: the
\* decoder and blockOffset
TokenStep(t, blockSize, junk) ==
  IF t.done THEN t
  ELSE IF Failed(t.d) \/ t.blockOffset >= blockSize THEN TokenEnd(t, t.d)
  ELSE TokenLiterals(t, numLiterals(t), Peek(t.d), blockSize, junk)

RECURSIVE TokenLoop(_, _, _, _)
TokenLoop(t, blockSize, junk, n) ==
  IF n <= 1 THEN TokenStep(t, blockSize, junk)
  ELSE LET half == TokenLoop(t, blockSize, junk, n \div 2)
       IN IF half.done THEN half
          ELSE TokenLoop(half, blockSize, junk, n - (n \div 2))

\* a compressed block: every token moves blockOffset forward, blockSize + 1
\* iterations at most
DecodeTokens(d, blockSize, junk) ==
  TokenLoop([d |-> d, blockOffset |-> 0, done |-> FALSE], blockSize, junk,
            blockSize + 1).d

\* "parse all blocks until blockSize == 0" (modern frames)
RECURSIVE DecodeBlocks(_, _, _)
DecodeBlocks(d, hasBlockChecksum, junk) ==
  LET b1 == Peek(d)
      b2 == Peek(Skip(d))
      b3 == Peek(SkipN(d, 2))
      b4 == Peek(SkipN(d, 3))
      body == SkipN(d, 4)
      isCompressed == b4 < 128
      blockSize == b1 + 256 * b2 + 65536 * b3 + 16777216 * (b4 % 128)
      decoded == IF isCompressed THEN DecodeTokens(body, blockSize, junk)
                                 ELSE CopyLiterals(body, blockSize)
      checked == IF hasBlockChecksum THEN SkipN(decoded, 4) ELSE decoded
  IN
  IF Failed(body) THEN body
  ELSE IF blockSize = 0 THEN body
  ELSE IF Failed(checked) THEN checked
  ELSE DecodeBlocks(checked, hasBlockChecksum, junk)

\* the whole decoder; legacy frames (signature 0x184C2102) are not modelled
unlz4(stream, junk) ==
  LET d0 == NewDecoder(stream, junk)
      signature == <<Peek(d0), Peek(Skip(d0)), Peek(SkipN(d0, 2)), Peek(SkipN(d0, 3))>>
      atFlags == SkipN(d0, 4)
      flags == Peek(atFlags)
      hasBlockChecksum   == (flags \div 16) % 2 = 1
      hasContentSize     == (flags \div 8) % 2 = 1
      hasContentChecksum == (flags \div 4) % 2 = 1
      \* flags, block size, content size, header checksum
      atBlocks == SkipN(atFlags, 1 + 1 + (IF hasContentSize THEN 8 ELSE 0) + 1)
      blocks == DecodeBlocks(atBlocks, hasBlockChecksum, junk)
      ended  == IF hasContentChecksum THEN SkipN(blocks, 4) ELSE blocks
  IN
  IF Failed(atFlags) THEN atFlags
  ELSE IF signature # <<4, 34, 77, 24>> THEN [atFlags EXCEPT !.err = "invalid signature"]
  ELSE IF Failed(Skip(atFlags)) THEN Skip(atFlags)
  ELSE IF flags % 2 = 1 THEN [Skip(atFlags) EXCEPT !.err = "dictionary not supported"]
  ELSE IF Failed(ended) THEN ended
  ELSE [ended EXCEPT !.out = @ \o [k \in 1..ended.pos |-> ended.history[k - 1]]]

\* ------------------------------------------------------------------------
\* the inputs of the model

\* the bytes read outside the input buffer or from uninitialised history
JunkBytes == {0, 97}
\* what an uninitialised Match::distance holds
JunkDistances == {0, 1}

\* maxChainLength as handed to lz4: levels 0, 1, 3, 6, 9 and unlimited
ChainLengths == {0, 1, 3, 6, 9, 65535}

\* what getBytes returns while the input lasts: the full buffer or less
ChunkSizes == {BufferSize \div 2, BufferSize - 1, BufferSize}

\* n bytes of the repeated pattern p
Rep(p, n) == [k \in 1..n |-> p[((k - 1) % Len(p)) + 1]]

\* "a", "ab", "aab", "abcd", "0123456789" and "ahayxcca": "ahay" and "xcca"
\* have the same hash
Patterns == {<<97>>, <<97, 98>>, <<97, 97, 98>>, <<97, 98, 99, 100>>,
             <<48, 49, 50, 51, 52, 53, 54, 55, 56, 57>>,
             <<97, 104, 97, 121, 120, 99, 99, 97>>}

\* the patterns of the inputs of more than one block
LongPatterns == {<<97>>, <<97, 98, 99, 100>>}

\* longest short input
MaxShort == 20
\* the lengths of the second part of a two-part input
Tails == {1, BlockEndNoMatch + 1, BufferSize - 1}

\* whole repetitions of "0123456789" that fill most of one block
Digits == <<48, 49, 50, 51, 52, 53, 54, 55, 56, 57>>
DigitsInput == Rep(Digits, 6 * Len(Digits))

\* n bytes of the pattern p between two copies of "bcdefgh", the first one
\* after the last byte of the run, and 13 bytes that occur once: the run
\* ends in a match with the start of the input
OneRun(p, n) ==
  <<Rep(p, n)[n], 98, 99, 100, 101, 102, 103, 104>> \o Rep(p, n)
  \o <<98, 99, 100, 101, 102, 103, 104>> \o [k \in 1..13 |-> 47 + k]

\* a run of "a" and a run of "yz" whose second and third byte start a match
\* of MaxSameLetter bytes
RunInputs == {OneRun(<<97>>, MaxSameLetter + 1), OneRun(<<121, 122>>, MaxSameLetter + 2)}

\* a run of "a" longer than MaxDistance, and after a "b" a second run of
\* MaxSameLetter bytes
TwoRuns ==
  Rep(<<97>>, MaxDistance + 1) \o <<98>> \o Rep(<<97>>, MaxSameLetter)
  \o [k \in 1..BlockEndNoMatch |-> 47 + k]

\* a block of different bytes but for "abcd" at MaxDistance before one of the
\* last BlockEndNoMatch - 1 positions and at that position, and 16 bytes more
FarRepeat ==
  [k \in 1..MaxBlockSize |->
     LET at == MaxBlockSize - BlockEndNoMatch + 1
     IN IF k - 1 \in (at - MaxDistance)..(at - MaxDistance + 3) THEN 97 + (k - 1) - (at - MaxDistance)
        ELSE IF k - 1 \in at..(at + 3) THEN 97 + (k - 1) - at
        ELSE 101 + k]
  \o Rep(<<97>>, 16)

\* periodic inputs: the short ones, those of one block or a byte less, those
\* of one block followed by a second part, and one of three blocks; the
\* digits and the runs
Files ==
  {Rep(p, n) : p \in Patterns, n \in (0..MaxShort) \cup {MaxBlockSize - 1, MaxBlockSize}}
  \cup {Rep(p, MaxBlockSize) \o Rep(q, m) : p \in LongPatterns, q \in LongPatterns, m \in Tails}
  \cup {Rep(<<97, 98, 99, 100>>, 2 * MaxBlockSize + 1)}
  \cup {DigitsInput} \cup RunInputs \cup {TwoRuns, FarRepeat}

\* ------------------------------------------------------------------------
\* smallz4::lz4 and smallz4::compress as a state machine

VARIABLES
  file,            \* the input stream behind getBytes
  pc,              \* where compress is
  defaulted,       \* lz4 was called without maxChainLength
  maxChainLength,
  data, dataZero, numRead,
  lastBlock, nextBlock,
  lastHash, previousHash, previousExact,
  writtenBy,       \* who wrote previousExact[k] (not a variable of the source)
  matches, cost, block,   \* of the current block
  out,             \* every byte handed to sendBytes, in order
  emitted          \* per block sent: its borders, form, payload and matches

\* main of smallz4.cpp, with the calls of fread and fwrite that its lz4
\* makes.  An argument and a path are sequences of characters; the standard
\* streams are the empty path.
VARIABLES
  argv,            \* argv[1], argv[2], ...
  existing,        \* the paths fopen(.., "rb") can open
  mpc,             \* where main is
  nextArgument, argPos,
  overwrite,
  inFile, outFile, \* in and out
  opened,          \* the calls of fopen so far: path and mode
  exitCode,        \* -1 while the process runs
  message,         \* what went to stderr (or "help" for the help screen)
  pending,         \* chunks the input still holds
  got,             \* bytes were read for the current block
  readFailed,      \* a call of fread ended on a read error
  writeFailed      \* a call of fwrite did not write its bytes

mainVars == <<argv, existing, mpc, nextArgument, argPos, overwrite, inFile, outFile,
              opened, exitCode, message, pending, got, readFailed, writeFailed>>

\* unlz4 of smallz4cat.c on a byte stream
VARIABLES
  stream,          \* what getByte delivers
  kind,            \* how the stream was built
  dpc,             \* "start", then "returned" or "error"
  decoded          \* the bytes sent to sendBytes and the message of error()

catVars == <<stream, kind, dpc, decoded>>

\* one length field, written by selectBestMatches and read by unlz4
VARIABLES
  field,           \* "literals" or "match"
  fieldLength,     \* the number of literals or the match length
  fieldBytes,      \* the block with the field
  parsed,          \* the length unlz4 read
  lpc              \* "write", "written", "parsed"

lengthVars == <<field, fieldLength, fieldBytes, parsed, lpc>>

others == <<mainVars, catVars, lengthVars>>

vars == <<file, pc, defaulted, maxChainLength, data, dataZero, numRead, lastBlock,
          nextBlock, lastHash, previousHash, previousExact, writtenBy, matches, cost,
          block, out, emitted, mainVars, catVars, lengthVars>>

tables == <<lastHash, previousHash, previousExact, writtenBy>>
buffer == <<data, dataZero, numRead>>
borders == <<lastBlock, nextBlock>>
perBlock == <<matches, cost, block>>
call == <<file, defaulted, maxChainLength>>

\* main is not running
MainOff ==
  /\ argv = <<>>
  /\ existing = {}
  /\ mpc = "off"
  /\ nextArgument = 1
  /\ argPos = 1
  /\ overwrite = FALSE
  /\ inFile = <<>>
  /\ outFile = <<>>
  /\ opened = <<>>
  /\ exitCode = -1
  /\ message = ""
  /\ pending = 0
  /\ got = FALSE
  /\ readFailed = FALSE
  /\ writeFailed = FALSE

\* unlz4 is not running
CatOff ==
  /\ stream = <<>>
  /\ kind = "none"
  /\ dpc = "off"
  /\ decoded = [out |-> <<>>, err |-> ""]

LengthOff ==
  /\ field = "off"
  /\ fieldLength = 0
  /\ fieldBytes = <<>>
  /\ parsed = 0
  /\ lpc = "off"

Init ==
  /\ MainOff
  /\ CatOff
  /\ LengthOff
  /\ file \in Files
  /\ pc = "call"
  /\ defaulted = FALSE
  /\ maxChainLength = MaxChainLength
  /\ data = <<>>
  /\ dataZero = 0
  /\ numRead = 0
  /\ lastBlock = 0
  /\ nextBlock = 0
  /\ lastHash = <<>>
  /\ previousHash = [k \in 0..(PreviousSize - 1) |-> NoPrevious]
  /\ previousExact = [k \in 0..(PreviousSize - 1) |-> NoPrevious]
  /\ writtenBy = [k \in 0..(PreviousSize - 1) |-> -1]
  /\ matches = <<>>
  /\ cost = <<>>
  /\ block = <<>>
  /\ out = <<>>
  /\ emitted = <<>>

\* smallz4::lz4(getBytes, sendBytes): maxChainLength = MaxChainLength
Lz4Default ==
  /\ pc = "call"
  /\ pc' = "header"
  /\ defaulted' = TRUE
  /\ maxChainLength' = MaxChainLength
  /\ UNCHANGED others
  /\ UNCHANGED <<file, buffer, borders, tables, perBlock, out, emitted>>

\* smallz4::lz4(getBytes, sendBytes, maxChainLength)
Lz4 ==
  /\ pc = "call"
  /\ pc' = "header"
  /\ defaulted' = FALSE
  /\ maxChainLength' \in ChainLengths
  /\ UNCHANGED others
  /\ UNCHANGED <<file, buffer, borders, tables, perBlock, out, emitted>>

\* "write header"
WriteHeader ==
  /\ pc = "header"
  /\ pc' = "read"
  /\ out' = out \o Header
  /\ UNCHANGED others
  /\ UNCHANGED <<call, buffer, borders, tables, perBlock, emitted>>

\* "read more bytes from input": getBytes delivers a chunk
ReadChunk ==
  /\ pc = "read"
  /\ numRead - nextBlock < MaxBlockSize
  /\ numRead < Len(file)
  /\ \E size \in ChunkSizes :
       LET incoming == Min(size, Len(file) - numRead)
       IN /\ numRead' = numRead + incoming
          /\ data' = data \o SubSeq(file, numRead + 1, numRead + incoming)
  /\ UNCHANGED others
  /\ UNCHANGED <<call, pc, dataZero, borders, tables, perBlock, out, emitted>>

\* the read loop ends: enough bytes for a block, or getBytes returned 0
ReadDone ==
  /\ pc = "read"
  /\ numRead - nextBlock >= MaxBlockSize \/ numRead = Len(file)
  /\ pc' = "borders"
  /\ UNCHANGED others
  /\ UNCHANGED <<call, buffer, borders, tables, perBlock, out, emitted>>

\* a variant that takes everything read so far as one block
NextBorderUnlimited(next, read) == read

\* "determine block borders"
NextBorder(next, read) == Min(next + MaxBlockSize, read)

StartBlock ==
  /\ pc = "borders"
  /\ nextBlock # numRead
  /\ lastBlock' = nextBlock
  /\ nextBlock' = NextBorder(nextBlock, numRead)
  /\ pc' = "find"
  /\ UNCHANGED others
  /\ UNCHANGED <<call, buffer, tables, perBlock, out, emitted>>

\* "full match finder"; reads outside the buffer yield junk, ...
FindMatches ==
  /\ pc = "find"
  /\ \E junk \in JunkBytes, noDist \in JunkDistances :
       \E found \in {findMatches(Buf(data, dataZero, junk), lastBlock, nextBlock,
                                 maxChainLength, noDist,
                                 lastHash, previousHash, previousExact, writtenBy)} :
          /\ lastHash' = found.lastHash
          /\ previousHash' = found.previousHash
          /\ previousExact' = found.previousExact
          /\ writtenBy' = found.writtenBy
          /\ matches' = found.matches
  /\ pc' = "costs"
  /\ UNCHANGED others
  /\ UNCHANGED <<call, buffer, borders, cost, block, out, emitted>>

\* ... or a read in front of data[0] faults: the process ends where it is.
\* Where four and curFour are read does not depend on noDist.
FindMatchesFault ==
  /\ pc = "find"
  /\ dataZero > 0
  /\ \E junk \in JunkBytes :
       \E p \in findMatches(Buf(data, dataZero, junk), lastBlock, nextBlock,
                            maxChainLength, 0,
                            lastHash, previousHash, previousExact, writtenBy).read :
          p < dataZero
  /\ pc' = "fault"
  /\ UNCHANGED others
  /\ UNCHANGED <<call, buffer, borders, tables, perBlock, out, emitted>>

\* "estimate costs (number of compressed bytes)"
EstimateCosts ==
  /\ pc = "costs"
  /\ NeedsCosts(nextBlock - lastBlock, maxChainLength)
  /\ \E est \in {estimateCosts(matches, nextBlock - lastBlock)} :
        /\ matches' = est.matches
        /\ cost' = est.cost
  /\ pc' = "select"
  /\ UNCHANGED others
  /\ UNCHANGED <<call, buffer, borders, tables, block, out, emitted>>

SkipCosts ==
  /\ pc = "costs"
  /\ ~NeedsCosts(nextBlock - lastBlock, maxChainLength)
  /\ pc' = "select"
  /\ UNCHANGED others
  /\ UNCHANGED <<call, buffer, borders, tables, perBlock, out, emitted>>

\* "select best matches": block stays empty when matching is disabled
SelectBestMatches ==
  /\ pc = "select"
  /\ block' = IF maxChainLength = 0 THEN <<>>
              ELSE selectBestMatches(matches, nextBlock - lastBlock,
                                     Buf(data, dataZero, 0), lastBlock)
  /\ pc' = "output"
  /\ UNCHANGED others
  /\ UNCHANGED <<call, buffer, borders, tables, matches, cost, out, emitted>>

\* "output": the tagged size, then the block or the input bytes
OutputBlock ==
  /\ pc = "output"
  /\ LET uncompressedSize == nextBlock - lastBlock
         useCompression == UseCompression(Len(block), uncompressedSize, maxChainLength)
         payload == IF useCompression THEN block
                    ELSE SubSeq(data, lastBlock - dataZero + 1, nextBlock - dataZero)
     IN /\ out' = out \o SizeWord(Len(payload), useCompression) \o payload
        /\ emitted' = Append(emitted,
                             [lastBlock |-> lastBlock, nextBlock |-> nextBlock,
                              compressed |-> useCompression, payload |-> payload,
                              taken |-> IF useCompression
                                          THEN SelectAll(matches, uncompressedSize,
                                                         Buf(data, dataZero, 0),
                                                         lastBlock).taken
                                          ELSE <<>>])
  /\ pc' = "trim"
  /\ UNCHANGED others
  /\ UNCHANGED <<call, buffer, borders, tables, perBlock>>

\* a variant that moves out everything read so far
TrimBufferAll ==
  /\ pc = "trim"
  /\ Len(data) > MaxDistance
  /\ dataZero' = numRead
  /\ data' = <<>>
  /\ matches' = <<>> /\ cost' = <<>> /\ block' = <<>>
  /\ pc' = "read"
  /\ UNCHANGED others
  /\ UNCHANGED <<call, numRead, borders, tables, out, emitted>>

\* "remove already processed data except for the last 64kb"; the block's
\* vectors go out of scope
TrimBuffer ==
  /\ pc = "trim"
  /\ Len(data) > MaxDistance
  /\ dataZero' = dataZero + (Len(data) - MaxDistance)
  /\ data' = SubSeq(data, Len(data) - MaxDistance + 1, Len(data))
  /\ matches' = <<>> /\ cost' = <<>> /\ block' = <<>>
  /\ pc' = "read"
  /\ UNCHANGED others
  /\ UNCHANGED <<call, numRead, borders, tables, out, emitted>>

KeepBuffer ==
  /\ pc = "trim"
  /\ Len(data) <= MaxDistance
  /\ matches' = <<>> /\ cost' = <<>> /\ block' = <<>>
  /\ pc' = "read"
  /\ UNCHANGED others
  /\ UNCHANGED <<call, buffer, borders, tables, out, emitted>>

\* "no more data ? => WE'RE DONE !" and "add an empty block"
Finish ==
  /\ pc = "borders"
  /\ nextBlock = numRead
  /\ out' = out \o Terminator
  /\ pc' = "done"
  /\ UNCHANGED others
  /\ UNCHANGED <<call, buffer, borders, tables, perBlock, emitted>>

Next ==
  \/ Lz4Default
  \/ Lz4
  \/ WriteHeader
  \/ ReadChunk
  \/ ReadDone
  \/ StartBlock
  \/ FindMatches
  \/ FindMatchesFault
  \/ EstimateCosts
  \/ SkipCosts
  \/ SelectBestMatches
  \/ OutputBlock
  \/ TrimBuffer
  \/ KeepBuffer
  \/ Finish

Spec == Init /\ [][Next]_vars

\* ------------------------------------------------------------------------
\* main of smallz4.cpp (smallz4.cpp:623-723)

\* compress of smallz4.h is not running
CompressOff ==
  /\ file = <<>>
  /\ pc = "off"
  /\ defaulted = FALSE
  /\ data = <<>>
  /\ dataZero = 0
  /\ numRead = 0
  /\ lastBlock = 0
  /\ nextBlock = 0
  /\ lastHash = <<>>
  /\ previousHash = <<>>
  /\ previousExact = <<>>
  /\ writtenBy = <<>>
  /\ matches = <<>>
  /\ cost = <<>>
  /\ block = <<>>
  /\ out = <<>>
  /\ emitted = <<>>

compressVars == <<file, pc, defaulted, data, dataZero, numRead, lastBlock, nextBlock,
                  lastHash, previousHash, previousExact, writtenBy, matches, cost, block, out,
                  emitted>>

\* '-' and '0'
Dash == 45
CharZero == 48
\* MaxDistance of smallz4.cpp, the initial maxChainLength
CppMaxDistance == 65534

\* "-", "-f", "-7", "-f7", "-7f", "-9", "-h", "-x", "a" and "b"
Arguments == {<<45>>, <<45, 102>>, <<45, 55>>, <<45, 102, 55>>, <<45, 55, 102>>,
              <<45, 57>>, <<45, 104>>, <<45, 120>>, <<97>>, <<98>>}
Paths == {<<97>>, <<98>>}

\* longest command line and longest input, in chunks
MaxArguments == 3
MaxChunks == 2

CommandLines ==
  UNION {[1..n -> Arguments] : n \in 0..MaxArguments}

MainInit ==
  /\ CompressOff
  /\ CatOff
  /\ LengthOff
  /\ maxChainLength = CppMaxDistance
  /\ argv \in CommandLines
  /\ existing \in SUBSET Paths
  /\ mpc = "flags"
  /\ nextArgument = 1
  /\ argPos = 1
  /\ overwrite = FALSE
  /\ inFile = <<>>
  /\ outFile = <<>>
  /\ opened = <<>>
  /\ exitCode = -1
  /\ message = ""
  /\ pending \in 0..MaxChunks
  /\ got = FALSE
  /\ readFailed = FALSE
  /\ writeFailed = FALSE

\* what main leaves alone
parsing == <<argv, existing, nextArgument, argPos, overwrite>>
streams == <<inFile, outFile, opened>>
io == <<pending, got, readFailed, writeFailed>>
ending == <<exitCode, message>>

\* argc > nextArgument && argv[nextArgument][0] == c, resp. != c
HasArgument == Len(argv) >= nextArgument
StartsWith(arg, c) == Len(arg) >= 1 /\ arg[1] = c

\* error(msg): the message goes to stderr and the process exits with 1
Error(msg) ==
  /\ message' = msg
  /\ exitCode' = 1
  /\ mpc' = "exit"

\* the outer while: the next argument is a flag argument
FlagArgument ==
  /\ mpc = "flags"
  /\ HasArgument /\ StartsWith(argv[nextArgument], Dash)
  /\ argPos' = 1
  /\ mpc' = "flag"
  /\ UNCHANGED <<argv, existing, nextArgument, overwrite, maxChainLength>>
  /\ UNCHANGED <<streams, io, ending, compressVars, catVars, lengthVars>>

\* the outer while ends
FlagsDone ==
  /\ mpc = "flags"
  /\ ~(HasArgument /\ StartsWith(argv[nextArgument], Dash))
  /\ mpc' = "input"
  /\ UNCHANGED <<parsing, maxChainLength, streams, io, ending, compressVars, catVars, lengthVars>>

\* the character the switch looks at: argv[nextArgument][argPos++]
AtFlag == mpc = "flag" /\ argPos + 1 <= Len(argv[nextArgument])
Flag == argv[nextArgument][argPos + 1]

\* case 'h': the help screen, return 0
ShowHelp ==
  /\ AtFlag /\ Flag = 104
  /\ argPos' = argPos + 1
  /\ message' = "help"
  /\ exitCode' = 0
  /\ mpc' = "exit"
  /\ UNCHANGED <<argv, existing, nextArgument, overwrite, maxChainLength>>
  /\ UNCHANGED <<streams, io, compressVars, catVars, lengthVars>>

\* case 'f'
ForceOverwrite ==
  /\ AtFlag /\ Flag = 102
  /\ argPos' = argPos + 1
  /\ overwrite' = TRUE
  /\ UNCHANGED <<argv, existing, nextArgument, mpc, maxChainLength>>
  /\ UNCHANGED <<streams, io, ending, compressVars, catVars, lengthVars>>

\* case '0' ... '8': maxChainLength = argv[nextArgument][1] - '0'
SetLevel ==
  /\ AtFlag /\ Flag \in CharZero..(CharZero + 8)
  /\ argPos' = argPos + 1
  /\ maxChainLength' = argv[nextArgument][2] - CharZero
  /\ UNCHANGED <<argv, existing, nextArgument, overwrite, mpc>>
  /\ UNCHANGED <<streams, io, ending, compressVars, catVars, lengthVars>>

\* case '9': maxChainLength = MaxDistance
SetUnlimited ==
  /\ AtFlag /\ Flag = CharZero + 9
  /\ argPos' = argPos + 1
  /\ maxChainLength' = CppMaxDistance
  /\ UNCHANGED <<argv, existing, nextArgument, overwrite, mpc>>
  /\ UNCHANGED <<streams, io, ending, compressVars, catVars, lengthVars>>

\* default: error("unknown flag")
UnknownFlag ==
  /\ AtFlag /\ Flag \notin {104, 102} \cup (CharZero..(CharZero + 9))
  /\ argPos' = argPos + 1
  /\ Error("unknown flag")
  /\ UNCHANGED <<argv, existing, nextArgument, overwrite, maxChainLength>>
  /\ UNCHANGED <<streams, io, compressVars, catVars, lengthVars>>

\* the inner while ends: nextArgument++
FlagArgumentDone ==
  /\ mpc = "flag"
  /\ argPos + 1 > Len(argv[nextArgument])
  /\ nextArgument' = nextArgument + 1
  /\ mpc' = "flags"
  /\ UNCHANGED <<argv, existing, argPos, overwrite, maxChainLength>>
  /\ UNCHANGED <<streams, io, ending, compressVars, catVars, lengthVars>>

\* "input file is given as first parameter": in = fopen(.., "rb")
IsInputPath == HasArgument /\ ~StartsWith(argv[nextArgument], Dash)

OpenInput ==
  /\ mpc = "input"
  /\ IsInputPath
  /\ argv[nextArgument] \in existing
  /\ opened' = Append(opened, [path |-> argv[nextArgument], mode |-> "rb"])
  /\ inFile' = argv[nextArgument]
  /\ nextArgument' = nextArgument + 1
  /\ mpc' = "output"
  /\ UNCHANGED <<argv, existing, argPos, overwrite, maxChainLength, outFile>>
  /\ UNCHANGED <<io, ending, compressVars, catVars, lengthVars>>

\* error("file not found")
InputNotFound ==
  /\ mpc = "input"
  /\ IsInputPath
  /\ argv[nextArgument] \notin existing
  /\ opened' = Append(opened, [path |-> argv[nextArgument], mode |-> "rb"])
  /\ Error("file not found")
  /\ UNCHANGED <<parsing, maxChainLength, inFile, outFile, io, compressVars, catVars, lengthVars>>

\* in stays stdin
KeepStdin ==
  /\ mpc = "input"
  /\ ~IsInputPath
  /\ mpc' = "output"
  /\ UNCHANGED <<parsing, maxChainLength, streams, io, ending, compressVars, catVars, lengthVars>>

\* "output file is given as second parameter"
IsOutputPath ==
  /\ Len(argv) + 1 = nextArgument + 1
  /\ ~StartsWith(argv[nextArgument], Dash)

\* error("output file already exists")
OutputExists ==
  /\ mpc = "output"
  /\ IsOutputPath
  /\ ~overwrite /\ argv[nextArgument] \in existing
  /\ opened' = Append(opened, [path |-> argv[nextArgument], mode |-> "rb"])
  /\ Error("output file already exists")
  /\ UNCHANGED <<parsing, maxChainLength, inFile, outFile, io, compressVars, catVars, lengthVars>>

\* the calls of fopen at the output path before fopen(.., "wb")
Probed(path) ==
  IF overwrite THEN opened ELSE Append(opened, [path |-> path, mode |-> "rb"])

\* out = fopen(.., "wb")
CreateOutput ==
  /\ mpc = "output"
  /\ IsOutputPath
  /\ overwrite \/ argv[nextArgument] \notin existing
  /\ opened' = Append(Probed(argv[nextArgument]),
                      [path |-> argv[nextArgument], mode |-> "wb"])
  /\ outFile' = argv[nextArgument]
  /\ existing' = existing \cup {argv[nextArgument]}
  /\ mpc' = "header"
  /\ UNCHANGED <<argv, nextArgument, argPos, overwrite, maxChainLength, inFile>>
  /\ UNCHANGED <<io, ending, compressVars, catVars, lengthVars>>

\* error("cannot create file")
CannotCreate ==
  /\ mpc = "output"
  /\ IsOutputPath
  /\ overwrite \/ argv[nextArgument] \notin existing
  /\ opened' = Append(Probed(argv[nextArgument]),
                      [path |-> argv[nextArgument], mode |-> "wb"])
  /\ Error("cannot create file")
  /\ UNCHANGED <<parsing, maxChainLength, inFile, outFile, io, compressVars, catVars, lengthVars>>

\* out stays stdout
KeepStdout ==
  /\ mpc = "output"
  /\ ~IsOutputPath
  /\ mpc' = "header"
  /\ UNCHANGED <<parsing, maxChainLength, streams, io, ending, compressVars, catVars, lengthVars>>

\* lz4 of smallz4.cpp as far as it calls fread and fwrite
\* (smallz4.cpp:373-616); sendBytesToOut drops the result of fwrite
SendHeader ==
  /\ mpc = "header"
  /\ \E written \in BOOLEAN : writeFailed' = (writeFailed \/ ~written)
  /\ mpc' = "read"
  /\ UNCHANGED <<parsing, maxChainLength, streams, ending, compressVars, catVars, lengthVars>>
  /\ UNCHANGED <<pending, got, readFailed>>

\* getBytesFromIn returns fread's count: a chunk
ReadBytes ==
  /\ mpc = "read"
  /\ pending > 0
  /\ pending' = pending - 1
  /\ got' = TRUE
  /\ UNCHANGED <<parsing, maxChainLength, streams, ending, compressVars, catVars, lengthVars>>
  /\ UNCHANGED <<mpc, readFailed, writeFailed>>

\* the read loop ends: the block is full, or fread returned 0, at the end of
\* the input or on a read error, which lz4 does not tell apart
AfterRead == IF got THEN "block" ELSE "terminator"

BlockFull ==
  /\ mpc = "read"
  /\ got /\ pending > 0
  /\ mpc' = "block"
  /\ UNCHANGED <<parsing, maxChainLength, streams, io, ending, compressVars, catVars, lengthVars>>

EndOfInput ==
  /\ mpc = "read"
  /\ pending = 0
  /\ mpc' = AfterRead
  /\ UNCHANGED <<parsing, maxChainLength, streams, io, ending, compressVars, catVars, lengthVars>>

ReadError ==
  /\ mpc = "read"
  /\ readFailed' = TRUE
  /\ mpc' = AfterRead
  /\ UNCHANGED <<parsing, maxChainLength, streams, ending, compressVars, catVars, lengthVars>>
  /\ UNCHANGED <<pending, got, writeFailed>>

\* the size and the bytes of a block
SendBlock ==
  /\ mpc = "block"
  /\ \E written \in BOOLEAN : writeFailed' = (writeFailed \/ ~written)
  /\ got' = FALSE
  /\ mpc' = "read"
  /\ UNCHANGED <<parsing, maxChainLength, streams, ending, compressVars, catVars, lengthVars>>
  /\ UNCHANGED <<pending, readFailed>>

\* "add an empty block"
SendTerminator ==
  /\ mpc = "terminator"
  /\ \E written \in BOOLEAN : writeFailed' = (writeFailed \/ ~written)
  /\ mpc' = "return"
  /\ UNCHANGED <<parsing, maxChainLength, streams, ending, compressVars, catVars, lengthVars>>
  /\ UNCHANGED <<pending, got, readFailed>>

\* return 0
Return ==
  /\ mpc = "return"
  /\ exitCode' = 0
  /\ mpc' = "exit"
  /\ UNCHANGED <<parsing, maxChainLength, streams, io, message, compressVars, catVars, lengthVars>>

MainNext ==
  \/ FlagArgument
  \/ FlagsDone
  \/ ShowHelp
  \/ ForceOverwrite
  \/ SetLevel
  \/ SetUnlimited
  \/ UnknownFlag
  \/ FlagArgumentDone
  \/ OpenInput
  \/ InputNotFound
  \/ KeepStdin
  \/ OutputExists
  \/ CreateOutput
  \/ CannotCreate
  \/ KeepStdout
  \/ SendHeader
  \/ ReadBytes
  \/ BlockFull
  \/ EndOfInput
  \/ ReadError
  \/ SendBlock
  \/ SendTerminator
  \/ Return

MainSpec == MainInit /\ [][MainNext]_vars

\* ------------------------------------------------------------------------
\* what the properties below are stated with

\* the little-endian 32-bit word at the 1-based position p of s: its low 31
\* bits and its high bit
SizeAt(s, p) == s[p] + 256 * s[p + 1] + 65536 * s[p + 2] + 16777216 * (s[p + 3] % 128)
RawAt(s, p) == s[p + 3] >= 128

\* the input bytes of an emitted block
InputOf(e) == SubSeq(file, e.lastBlock + 1, e.nextBlock)

\* the decoder's result on everything sent, whatever uninitialised history holds
Decodes == \A junk \in JunkBytes :
             /\ unlz4(out, junk).err = ""
             /\ unlz4(out, junk).out = file

\* out, from position p on, is the size word and payload of the blocks k,
\* k + 1, ... in this order and, once compress has returned, the terminator
RECURSIVE FramedFrom(_, _)
FramedFrom(p, k) ==
  IF k > Len(emitted)
    THEN IF pc = "done" THEN SubSeq(out, p, Len(out)) = <<0, 0, 0, 0>>
                        ELSE p = Len(out) + 1
    ELSE LET n == Len(emitted[k].payload)
         IN /\ p + 3 + n <= Len(out)
            /\ SizeAt(out, p) = n
            /\ SubSeq(out, p + 4, p + 3 + n) = emitted[k].payload
            /\ FramedFrom(p + 4 + n, k + 1)

\* the output of compress for an input X of at most one block, which does
\* not depend on how getBytes delivers it (smallz4.h:449-770)
compress(X, maxChain) ==
  LET D == Buf(X, 0, 0)
      none == [k \in 0..(PreviousSize - 1) |-> NoPrevious]
      found == findMatches(D, 0, Len(X), maxChain, 0, <<>>, none, none,
                           [k \in 0..(PreviousSize - 1) |-> -1])
      best == IF NeedsCosts(Len(X), maxChain)
                THEN estimateCosts(found.matches, Len(X)).matches
                ELSE found.matches
      encoded == IF maxChain = 0 THEN <<>>
                 ELSE selectBestMatches(best, Len(X), D, 0)
      useCompression == UseCompression(Len(encoded), Len(X), maxChain)
      payload == IF useCompression THEN encoded ELSE X
  IN Header
     \o (IF Len(X) = 0 THEN <<>>
         ELSE SizeWord(Len(payload), useCompression) \o payload)
     \o Terminator

TwelveA == Rep(<<97>>, 12)
FourAbcd == Rep(<<97, 98, 99, 100>>, 16)

\* ------------------------------------------------------------------------
\* unlz4 of smallz4cat.c on valid and on corrupted streams

\* a stream of one block: the header, the declared block size, the bytes
\* and the terminator
OneBlock(declared, bytes) ==
  Header \o SizeWord(declared, TRUE) \o bytes \o Terminator

\* well-formed streams: no block; a raw block; a literal and a match at
\* offset 1; four literals and a match at offset 4; a raw block and a block
\* whose match refers to it
ValidStreams ==
  { Header \o Terminator,
    Header \o SizeWord(1, FALSE) \o <<97>> \o Terminator,
    OneBlock(10, <<20, 97, 1, 0, 80, 97, 97, 97, 97, 97>>),
    OneBlock(13, <<71, 97, 98, 99, 100, 4, 0, 80, 97, 98, 99, 100, 97>>),
    Header \o SizeWord(4, FALSE) \o <<97, 98, 99, 100>>
           \o SizeWord(9, TRUE) \o <<4, 4, 0, 80, 97, 98, 99, 100, 97>>
           \o Terminator }

\* a wrong first byte
BadSignatures == {[s EXCEPT ![1] = 5] : s \in ValidStreams}

\* every stream that ends before the terminator is complete
Truncated == UNION {{SubSeq(s, 1, n) : n \in 0..(Len(s) - 1)} : s \in ValidStreams}

\* one literal, then a match at offset 0
ZeroOffsets == {OneBlock(4, <<16, 97, 0, 0>>)}

\* a match at an offset beyond the bytes decoded so far
FarOffsets ==
  {OneBlock(3, <<0, 1, 0>>)}
  \cup {OneBlock(4, <<16, 97, d, 0>>) : d \in {2, MaxDistance}}

\* a token whose literals, or whose match length, run past the declared
\* block size
Overruns == {OneBlock(2, <<48, 97, 98, 99, 1, 0>>), OneBlock(4, <<31, 97, 1, 0, 2>>)}

CatInputs ==
  {[kind |-> "valid", stream |-> s] : s \in ValidStreams}
  \cup {[kind |-> "signature", stream |-> s] : s \in BadSignatures}
  \cup {[kind |-> "truncated", stream |-> s] : s \in Truncated}
  \cup {[kind |-> "zero offset", stream |-> s] : s \in ZeroOffsets}
  \cup {[kind |-> "far offset", stream |-> s] : s \in FarOffsets}
  \cup {[kind |-> "overrun", stream |-> s] : s \in Overruns}

CatInit ==
  /\ CompressOff
  /\ LengthOff
  /\ maxChainLength = MaxChainLength
  /\ MainOff
  /\ \E input \in CatInputs : kind = input.kind /\ stream = input.stream
  /\ dpc = "start"
  /\ decoded = [out |-> <<>>, err |-> ""]

\* unlz4 returns, having sent its output
Unlz4Returns ==
  /\ dpc = "start"
  /\ \E junk \in JunkBytes :
       /\ unlz4(stream, junk).err = ""
       /\ decoded' = [out |-> unlz4(stream, junk).out, err |-> ""]
  /\ dpc' = "returned"
  /\ UNCHANGED <<stream, kind, maxChainLength, compressVars, mainVars, lengthVars>>

\* unlz4 calls error(), which ends the process
Unlz4Error ==
  /\ dpc = "start"
  /\ \E junk \in JunkBytes :
       /\ unlz4(stream, junk).err # ""
       /\ decoded' = [out |-> unlz4(stream, junk).out, err |-> unlz4(stream, junk).err]
  /\ dpc' = "error"
  /\ UNCHANGED <<stream, kind, maxChainLength, compressVars, mainVars, lengthVars>>

CatNext ==
  \/ Unlz4Returns
  \/ Unlz4Error

CatSpec == CatInit /\ [][CatNext]_vars

\* ------------------------------------------------------------------------
\* one length field from the token writer to the decoder

\* the longest field: a match of length 19 + 2 * 255 and two more, with two
\* bytes 255 and the byte after them
MaxLength == 531

\* a block of n literals, a match of the given length and distance 1, and
\* the last five literals
FieldMatches(n, length) ==
  [k \in 0..(n + length + BlockEndLiterals - 1) |->
     IF k = n THEN Match(length, 1) ELSE Match(0, 0)]

FieldBlock(n, length) ==
  selectBestMatches(FieldMatches(n, length), n + length + BlockEndLiterals,
                    Buf([k \in 1..(n + length + BlockEndLiterals) |-> 97], 0, 0), 0)

LengthInit ==
  /\ CompressOff
  /\ maxChainLength = MaxChainLength
  /\ MainOff
  /\ CatOff
  /\ field \in {"literals", "match"}
  /\ fieldLength \in 0..MaxLength
  /\ field = "match" => fieldLength >= MinMatch
  /\ fieldBytes = <<>>
  /\ parsed = 0
  /\ lpc = "write"

\* selectBestMatches writes a token with this many literals
WriteLiterals ==
  /\ lpc = "write" /\ field = "literals"
  /\ fieldBytes' = FieldBlock(fieldLength, MinMatch)
  /\ lpc' = "written"
  /\ UNCHANGED <<field, fieldLength, parsed, maxChainLength, compressVars, mainVars, catVars>>

\* selectBestMatches writes a token with one literal and a match of this
\* length
WriteMatch ==
  /\ lpc = "write" /\ field = "match"
  /\ fieldBytes' = FieldBlock(1, fieldLength)
  /\ lpc' = "written"
  /\ UNCHANGED <<field, fieldLength, parsed, maxChainLength, compressVars, mainVars, catVars>>

\* unlz4 reads the number of literals of the first token
ParseLiterals ==
  /\ lpc = "written" /\ field = "literals"
  /\ \E junk \in JunkBytes :
       parsed' = numLiterals([d |-> NewDecoder(fieldBytes, junk), blockOffset |-> 0]).n
  /\ lpc' = "parsed"
  /\ UNCHANGED <<field, fieldLength, fieldBytes, maxChainLength, compressVars, mainVars, catVars>>

\* unlz4 reads the first token, copies its literals and reads the match
\* length after the distance
ParseMatch ==
  /\ lpc = "written" /\ field = "match"
  /\ \E junk \in JunkBytes :
       LET t   == [d |-> NewDecoder(fieldBytes, junk), blockOffset |-> 0]
           lit == numLiterals(t)
       IN parsed' = matchLength(CopyLiterals(lit.d, lit.n), lit.blockOffset + lit.n,
                                Peek(t.d)).n
  /\ lpc' = "parsed"
  /\ UNCHANGED <<field, fieldLength, fieldBytes, maxChainLength, compressVars, mainVars, catVars>>

LengthNext ==
  \/ WriteLiterals
  \/ WriteMatch
  \/ ParseLiterals
  \/ ParseMatch

LengthSpec == LengthInit /\ [][LengthNext]_vars


\* ------------------------------------------------------------------------
\* C1: round trip.  For every input and every maxChainLength in
\* {0, 1, 3, 6, 9}, unlz4 applied to everything compress sent yields the
\* input, byte for byte.
C1_RoundTrip ==
  pc = "done" /\ maxChainLength \in {0, 1, 3, 6, 9} => Decodes

\* ------------------------------------------------------------------------
\* C2: every match written into a compressed block, at every level above 0,
\* has a distance between 1 and MaxDistance, a length of at least MinMatch,
\* and a distance that does not exceed the number of input bytes before the
\* match's absolute position.
C2_MatchesWellFormed ==
  \A k \in 1..Len(emitted) :
    \A j \in 1..Len(emitted[k].taken) :
      LET m == emitted[k].taken[j]
      IN /\ 1 <= m.distance
         /\ m.distance <= MaxDistance
         /\ m.length >= MinMatch
         /\ m.distance <= emitted[k].lastBlock + m.offset

\* a match of a second block that refers into the first block
C2_Witness ==
  /\ Len(emitted) = 2
  /\ \E j \in 1..Len(emitted[2].taken) :
       emitted[2].taken[j].distance > emitted[2].taken[j].offset

\* ------------------------------------------------------------------------
\* C3: in every block emitted in compressed form, at every level above 0, no
\* match covers any of the last BlockEndLiterals positions of the block, and
\* the payload ends with (at least) the block's last BlockEndLiterals bytes
\* as literals.
C3_LastLiterals ==
  \A k \in 1..Len(emitted) :
    LET e == emitted[k]
        size == e.nextBlock - e.lastBlock
    IN e.compressed =>
         /\ \A j \in 1..Len(e.taken) :
              e.taken[j].offset + e.taken[j].length <= size - BlockEndLiterals
         /\ size >= BlockEndLiterals =>
              SubSeq(e.payload, Len(e.payload) - BlockEndLiterals + 1, Len(e.payload))
                = SubSeq(file, e.nextBlock - BlockEndLiterals + 1, e.nextBlock)

\* ------------------------------------------------------------------------
\* C4: a block is sent in compressed form exactly when the encoded block is
\* strictly smaller than the raw block and maxChainLength > 0; the size word
\* holds the payload's size in its low 31 bits and has its high bit set
\* exactly when the payload is the raw block, which then is the block's input
\* verbatim; with maxChainLength = 0 every block is sent raw.
C4_BlockEmission ==
  pc = "trim" =>
    LET size == nextBlock - lastBlock
        smaller == Len(block) < size /\ maxChainLength > 0
        payload == IF smaller THEN block ELSE SubSeq(file, lastBlock + 1, nextBlock)
        n == Len(out)
        word == n - Len(payload) - 3
    IN /\ emitted[Len(emitted)].compressed = smaller
       /\ SubSeq(out, n - Len(payload) + 1, n) = payload
       /\ SizeAt(out, word) = Len(payload)
       /\ RawAt(out, word) = ~smaller
       /\ maxChainLength = 0 => RawAt(out, word)

\* a compressed block followed by a raw one in the same stream
C4_Witness ==
  /\ pc = "trim"
  /\ maxChainLength > 0
  /\ Len(emitted) = 2
  /\ emitted[1].compressed
  /\ ~emitted[2].compressed

\* ------------------------------------------------------------------------
\* C5: what is sent is, in this order and with nothing else, the header
\* 04 22 4D 18 40 70 DF, then for each block in input order its size word and
\* its payload, then 00 00 00 00 once, as the last bytes; for the empty input
\* these 11 bytes are everything.
C5_Framing ==
  /\ pc \in {"call", "header"} => out = <<>>
  /\ pc \notin {"call", "header"} =>
       /\ Len(out) >= 7
       /\ SubSeq(out, 1, 7) = <<4, 34, 77, 24, 64, 112, 223>>
       /\ FramedFrom(8, 1)
  /\ \A k \in 1..Len(emitted) :
       /\ emitted[k].lastBlock = (IF k = 1 THEN 0 ELSE emitted[k - 1].nextBlock)
       /\ emitted[k].lastBlock < emitted[k].nextBlock
       /\ ~emitted[k].compressed => emitted[k].payload = InputOf(emitted[k])
  /\ pc = "done" =>
       /\ (IF emitted = <<>> THEN 0 ELSE emitted[Len(emitted)].nextBlock) = Len(file)
       /\ file = <<>> => out = <<4, 34, 77, 24, 64, 112, 223, 0, 0, 0, 0>>

\* a finished stream of three blocks
C5_Witness == pc = "done" /\ Len(emitted) = 3

\* ------------------------------------------------------------------------
\* C6: lz4 called without maxChainLength sends what lz4 called with
\* maxChainLength = 65535 sends (stated for inputs of one block).
C6_DefaultIsUnlimited ==
  pc = "done" /\ defaulted /\ Len(file) <= MaxBlockSize => out = compress(file, 65535)

\* ------------------------------------------------------------------------
\* C7 as stated: the match finder stores no match at any of the last
\* BlockEndNoMatch positions blockSize - 12 .. blockSize - 1 of a block, and
\* no emitted match starts there.
C7_LastTwelve ==
  /\ pc \in {"costs", "select", "output", "trim"} =>
       \A i \in DOMAIN matches :
         i >= (nextBlock - lastBlock) - BlockEndNoMatch => ~isMatch(matches[i])
  /\ \A k \in 1..Len(emitted) :
       \A j \in 1..Len(emitted[k].taken) :
         emitted[k].taken[j].offset
           < (emitted[k].nextBlock - emitted[k].lastBlock) - BlockEndNoMatch

\* C7, amended: the match finder of smallz4.h stores no match at any of the
\* last BlockEndNoMatch - 1 positions blockSize - 11 .. blockSize - 1 of a
\* block, and no emitted match starts there; position blockSize - 12 can hold
\* a match.
C7_LastEleven ==
  /\ pc \in {"costs", "select", "output", "trim"} =>
       \A i \in DOMAIN matches :
         i > (nextBlock - lastBlock) - BlockEndNoMatch => ~isMatch(matches[i])
  /\ \A k \in 1..Len(emitted) :
       \A j \in 1..Len(emitted[k].taken) :
         emitted[k].taken[j].offset
           <= (emitted[k].nextBlock - emitted[k].lastBlock) - BlockEndNoMatch

\* the match finder has just stored a match at position blockSize - 12
C7_Witness ==
  /\ pc = "costs"
  /\ nextBlock - lastBlock >= BlockEndNoMatch
  /\ isMatch(matches[(nextBlock - lastBlock) - BlockEndNoMatch])

\* ------------------------------------------------------------------------
\* C8: the blocks are consecutive, every block but the last holds exactly
\* MaxBlockSize bytes and the last holds 1..MaxBlockSize bytes, however
\* getBytes chunks the input; nextBlock = min(lastBlock + MaxBlockSize,
\* numRead).
C8_Partitioning ==
  /\ \A k \in 1..Len(emitted) :
       /\ emitted[k].lastBlock = (k - 1) * MaxBlockSize
       /\ emitted[k].nextBlock = Min(k * MaxBlockSize, Len(file))
       /\ emitted[k].nextBlock > emitted[k].lastBlock
  /\ pc \in {"find", "costs", "select", "output", "trim"} =>
       /\ nextBlock = Min(lastBlock + MaxBlockSize, numRead)
       /\ lastBlock = Len(emitted) * MaxBlockSize
            - (IF pc = "trim" THEN MaxBlockSize ELSE 0)
       /\ nextBlock = Min(lastBlock + MaxBlockSize, Len(file))
  /\ pc = "done" =>
       /\ (Len(emitted) - 1) * MaxBlockSize < Len(file) \/ file = <<>>
       /\ Len(file) <= Len(emitted) * MaxBlockSize

\* an input of MaxBlockSize + 1 bytes went out as two blocks
C8_Witness ==
  /\ pc = "done"
  /\ Len(file) = MaxBlockSize + 1
  /\ Len(emitted) = 2
  /\ emitted[2].nextBlock - emitted[2].lastBlock = 1

\* ------------------------------------------------------------------------
\* C9 as stated: twelve 'a' at level 9 give one block, sent in compressed
\* form, whose first token has at least 5 literals, and decoding returns the
\* input.
C9_TwelveACompressed ==
  pc = "done" /\ file = TwelveA /\ maxChainLength \in {9, 65535} =>
    /\ Len(emitted) = 1
    /\ emitted[1].compressed
    /\ ~RawAt(out, 8)
    /\ out[12] \div 16 >= 5
    /\ Decodes

\* C9, amended: twelve 'a' at level 9 give one block, sent raw (size word
\* 12 with the high bit set, then the twelve input bytes), because the
\* encoded block, one token and twelve literals, is not smaller than the
\* input; decoding returns the input.
C9_TwelveARaw ==
  pc = "done" /\ file = TwelveA /\ maxChainLength \in {9, 65535} =>
    /\ Len(emitted) = 1
    /\ ~emitted[1].compressed
    /\ out = <<4, 34, 77, 24, 64, 112, 223, 12, 0, 0, 128>> \o TwelveA \o <<0, 0, 0, 0>>
    /\ Decodes

C9_Witness == pc = "done" /\ file = TwelveA /\ maxChainLength = 9

\* ------------------------------------------------------------------------
\* C10 as stated: "abcdabcdabcdabcd" at level 9 gives a block that is a token
\* with the 4 literals "abcd" and a match of length 12 at distance 4, and
\* decoding returns the input.
C10_MatchOfTwelve ==
  pc = "done" /\ file = FourAbcd /\ maxChainLength \in {9, 65535} =>
    /\ Len(emitted) = 1
    /\ emitted[1].compressed
    /\ emitted[1].taken = <<[offset |-> 4, length |-> 12, distance |-> 4]>>
    /\ Decodes

\* C10, amended: "abcdabcdabcdabcd" at level 9 gives a block that is a token
\* with the 4 literals "abcd" and a match of length 7 at distance 4, then a
\* token with the 5 literals "dabcd"; decoding returns the input.
C10_MatchOfSeven ==
  pc = "done" /\ file = FourAbcd /\ maxChainLength \in {9, 65535} =>
    /\ Len(emitted) = 1
    /\ emitted[1].compressed
    /\ emitted[1].taken = <<[offset |-> 4, length |-> 7, distance |-> 4]>>
    /\ out = <<4, 34, 77, 24, 64, 112, 223, 13, 0, 0, 0,
               67, 97, 98, 99, 100, 4, 0, 80, 100, 97, 98, 99, 100,
               0, 0, 0, 0>>
    /\ Decodes

C10_Witness == pc = "done" /\ file = FourAbcd /\ maxChainLength = 65535

\* ------------------------------------------------------------------------
\* C11: for whole repetitions of "0123456789" in one block, the output at
\* maxChainLength = 1 decodes to the input, keeps the last BlockEndLiterals
\* bytes of the block as literals, and is strictly longer than the output at
\* level 9.
C11_GreedyLarger ==
  pc = "done" /\ file = DigitsInput /\ maxChainLength = 1 =>
    /\ Decodes
    /\ \A k \in 1..Len(emitted) : \A j \in 1..Len(emitted[k].taken) :
         emitted[k].taken[j].offset + emitted[k].taken[j].length
           <= (emitted[k].nextBlock - emitted[k].lastBlock) - BlockEndLiterals
    /\ Len(out) > Len(compress(file, 9))

\* ------------------------------------------------------------------------
\* C12: a failed read or write is fatal: the process reports an error and
\* exits with 1, and never exits with 0 after a failed read or write.
C12_IoFailuresFatal ==
  /\ exitCode = 0 => ~readFailed /\ ~writeFailed
  /\ mpc = "exit" /\ (readFailed \/ writeFailed) => exitCode = 1 /\ message # ""

\* ------------------------------------------------------------------------
\* the characters after the '-' of the flag arguments argv[1..n], in order
RECURSIVE FlagCharsUpTo(_)
FlagCharsUpTo(n) == IF n = 0 THEN <<>> ELSE FlagCharsUpTo(n - 1) \o Tail(argv[n])

IsDigit(c) == c \in CharZero..(CharZero + 9)

\* C13: once the flags are parsed, maxChainLength is the value of the last
\* digit among them, wherever it stands in its argument: the digit's value
\* for 0..8 and 65535 for 9.
C13_LevelFlags ==
  mpc = "input" =>
    LET digits == SelectSeq(FlagCharsUpTo(nextArgument - 1), IsDigit)
        last == digits[Len(digits)]
    IN digits # <<>> =>
         maxChainLength = (IF last = CharZero + 9 THEN 65535 ELSE last - CharZero)

\* ------------------------------------------------------------------------
\* the command line is flags, then "-", then a path
DashThenPath ==
  /\ Len(argv) >= 2
  /\ argv[Len(argv) - 1] = <<Dash>>
  /\ argv[Len(argv)] \in Paths
  /\ \A k \in 1..(Len(argv) - 2) : StartsWith(argv[k], Dash) /\ Len(argv[k]) >= 2

\* the command line has flags only
OnlyFlags == \A k \in 1..Len(argv) : StartsWith(argv[k], Dash)

Running == mpc \in {"header", "read", "block", "terminator", "return"}

\* C14: with "-" and then a path, the input is stdin and the path is the
\* output file, never opened as the input; with no path, or "-", the streams
\* are stdin and stdout.
C14_Positional ==
  /\ DashThenPath =>
       /\ inFile # argv[Len(argv)]
       /\ message # "file not found"
       /\ Running => inFile = <<>> /\ outFile = argv[Len(argv)]
  /\ OnlyFlags /\ ~DashThenPath /\ Running => inFile = <<>> /\ outFile = <<>>

\* ------------------------------------------------------------------------
\* C15: unlz4 calls error() on every corrupted stream (wrong signature, end
\* of input before the terminator, match offset 0, match offset beyond the
\* bytes decoded so far, token fields that run past the declared block
\* size), and what it sends never depends on uninitialised history.
C15_CorruptedIsError ==
  dpc \in {"returned", "error"} /\ kind # "valid" =>
    /\ dpc = "error"
    /\ \A junk \in JunkBytes : unlz4(stream, junk).out = decoded.out

\* ------------------------------------------------------------------------
\* C16: the driver keeps dataZero <= lastBlock <= nextBlock <= numRead in
\* every state, also between trimming the buffer and assigning lastBlock,
\* for every chunking of the input.
C16_Borders ==
  /\ dataZero <= lastBlock
  /\ lastBlock <= nextBlock
  /\ nextBlock <= numRead

\* C16 as the code has it: the buffer never starts after nextBlock, and it
\* starts at or before lastBlock from the assignment of the borders until
\* the buffer is trimmed; after the trim lastBlock is stale.
C16_BordersOfBlock ==
  /\ dataZero <= nextBlock
  /\ lastBlock <= nextBlock
  /\ nextBlock <= numRead
  /\ pc \in {"find", "costs", "select", "output", "trim"} => dataZero <= lastBlock

\* the buffer was trimmed past the stale lastBlock
C16_Witness == pc = "read" /\ dataZero > lastBlock

\* ------------------------------------------------------------------------
\* C17: whenever match finding runs on [lastBlock, nextBlock), the buffer
\* still holds the MaxDistance bytes before the block:
\* dataZero <= max(0, lastBlock - MaxDistance), for every chunking.
C17_HistoryKept ==
  pc = "find" =>
    dataZero <= (IF lastBlock > MaxDistance THEN lastBlock - MaxDistance ELSE 0)

\* ------------------------------------------------------------------------
\* estimateCosts has run on the block: matches and cost are its results
Estimated ==
  pc = "select" /\ NeedsCosts(nextBlock - lastBlock, maxChainLength)

\* C18: after estimateCosts on a block of size B every match position i
\* has i + matches[i].length + BlockEndLiterals <= B.
C18_MatchesInsideBlock ==
  Estimated =>
    \A i \in 0..(nextBlock - lastBlock - 1) :
      isMatch(matches[i]) =>
        i + matches[i].length + BlockEndLiterals <= nextBlock - lastBlock

\* a match that estimateCosts left ending right at the last literals
C18_Witness ==
  /\ Estimated
  /\ \E i \in 0..(nextBlock - lastBlock - 1) :
       /\ isMatch(matches[i])
       /\ i + matches[i].length + BlockEndLiterals = nextBlock - lastBlock

SameLetter(m) == m.distance = 1 /\ m.length >= MaxSameLetter

C20_Idempotent ==
  Estimated =>
    estimateCosts(matches, nextBlock - lastBlock).matches = matches

\* a result with a match longer than MinMatch, so that the second run has
\* several lengths to try, and with a literal before the last literals
C20_Witness ==
  /\ Estimated
  /\ \E i \in 0..(nextBlock - lastBlock - 1) :
       isMatch(matches[i]) /\ matches[i].length > MinMatch
  /\ \E j \in 0..(nextBlock - lastBlock - 1 - BlockEndLiterals) :
       matches[j] = Match(1, NoPrevious)

\* ------------------------------------------------------------------------
\* the smallest block over the candidate matches of the match finder

MinOf(S) == CHOOSE x \in S : \A y \in S : x <= y

\* the bytes of n literals and of a match of length L in a block: the
\* literals and their extra length bytes; token, distance and extra bytes
RunBytes(n) == n + Len(LengthBytes(n))
MatchBytes(L) == 1 + 2 + Len(LengthBytes(L - MinMatch))

\* One position j, from the end of the block backwards.  os.G[j]: the
\* fewest bytes for [j, B) when a match of the candidate at j is taken
\* there (4 <= L <= its length, j + L <= B - 5), -1 without one; os.F[j]:
\* the fewest bytes for [j, B) when a token starts at j (literals up to the
\* next match taken, or up to the end of the block with the last token).
OptimalStep(cands, B, os) ==
  LET j   == os.j
      top == Min(cands[j].length, B - BlockEndLiterals - j)
      g   == IF top < MinMatch THEN -1
             ELSE MinOf({MatchBytes(L) + os.F[j + L] : L \in MinMatch..top})
      G   == (j :> g) @@ os.G
      f   == MinOf({1 + RunBytes(B - j)}
                   \cup {RunBytes(k - j) + G[k] : k \in {k \in j..(B - 1) : G[k] >= 0}})
  IN
  IF os.done THEN os
  ELSE IF j < 0 THEN [os EXCEPT !.done = TRUE]
  ELSE [j |-> j - 1, F |-> (j :> f) @@ os.F, G |-> G, done |-> FALSE]

RECURSIVE OptimalLoop(_, _, _, _)
OptimalLoop(cands, B, os, n) ==
  IF n <= 1 THEN OptimalStep(cands, B, os)
  ELSE LET half == OptimalLoop(cands, B, os, n \div 2)
       IN IF half.done THEN half
          ELSE OptimalLoop(cands, B, half, n - (n \div 2))

\* F[i]: the size of the smallest encoding of [i, B)
Optimal(cands, B) ==
  OptimalLoop(cands, B, [j |-> B - 1, F |-> <<>>, G |-> <<>>, done |-> FALSE], B).F

\* the match finder has run on the block: matches holds its candidates
Candidates ==
  pc = "costs" /\ NeedsCosts(nextBlock - lastBlock, maxChainLength)

\* the block selectBestMatches writes after estimateCosts
Written ==
  selectBestMatches(estimateCosts(matches, nextBlock - lastBlock).matches,
                    nextBlock - lastBlock, Buf(data, dataZero, 0), lastBlock)

\* a candidate that estimateCosts takes whole, without trying its lengths
LongRun ==
  \E i \in 0..(nextBlock - lastBlock - 1) :
    SameLetter(ClampLength(matches[i], i, nextBlock - lastBlock))

\* C21: cost[i] is the fewest bytes that encode [i, B): the block written
\* after estimateCosts is the smallest among all parses that take, at each
\* position, a literal or a prefix of length 4 or more (ending at or before
\* B - 5) of the candidate match.
C21_OptimalParse ==
  Candidates => Len(Written) = Optimal(matches, nextBlock - lastBlock)[0]

\* C21 as the code has it: cost[0] counts the block less its last token and
\* last five literals; and unless a distance-1 candidate of MaxSameLetter
\* bytes or more is taken whole, cost[i] plus these six bytes is the size
\* of the smallest encoding of [i, B), so that the block is the smallest.
C21_OptimalOutsideLongRun ==
  Candidates =>
    LET est == estimateCosts(matches, nextBlock - lastBlock)
        opt == Optimal(matches, nextBlock - lastBlock)
    IN /\ Len(Written) = est.cost[0] + 1 + BlockEndLiterals
       /\ ~LongRun =>
            \A i \in 0..(nextBlock - lastBlock - 1 - BlockEndLiterals) :
              est.cost[i] + 1 + BlockEndLiterals = opt[i]

\* estimateCosts keeps a match shorter than the candidate, outside a long run
C21_Witness ==
  /\ Candidates
  /\ ~LongRun
  /\ \E i \in 0..(nextBlock - lastBlock - 1) :
       LET kept == estimateCosts(matches, nextBlock - lastBlock).matches[i]
       IN isMatch(kept) /\ kept.length < ClampLength(matches[i], i, nextBlock - lastBlock).length

\* ------------------------------------------------------------------------
\* what estimateCosts has to choose from at position i of a block of size B,
\* given its results est for the positions after i

\* the next position after i where a match was kept, or B
NextMatch(est, i, B) ==
  MinOf({B} \cup {k \in (i + 1)..(B - 1 - BlockEndLiterals) : isMatch(est.matches[k])})

\* the cost of a literal at i
LiteralCost(est, i, B) ==
  est.cost[i + 1] + 1
  + (IF NextMatch(est, i, B) - i >= 15 /\ (NextMatch(est, i, B) - i - 15) % 255 = 0
       THEN 1 ELSE 0)

\* the cost of a match of length L at i
LengthCost(est, i, L) == est.cost[i + L] + MatchCost(L)

\* the lengths of the clamped candidate m that cost the least at i, if
\* that is no more than the literal
Cheapest(est, i, B, m) ==
  {L \in MinMatch..m.length :
     /\ LengthCost(est, i, L) <= LiteralCost(est, i, B)
     /\ \A K \in MinMatch..m.length : LengthCost(est, i, L) <= LengthCost(est, i, K)}

\* C22: at each position before the last literals, outside the long-run
\* shortcut, estimateCosts keeps the largest candidate length whose cost is
\* the minimum over the literal and all lengths from MinMatch to the clamped
\* candidate length; a match that costs the same as the literal is kept
\* instead of the literal.
C22_LongestOfCheapest ==
  Candidates =>
    LET B   == nextBlock - lastBlock
        est == estimateCosts(matches, B)
    IN \A i \in 0..(B - 1 - BlockEndLiterals) :
         LET m == ClampLength(matches[i], i, B)
             cheapest == Cheapest(est, i, B, m)
         IN ~SameLetter(m) =>
              IF cheapest = {}
                THEN /\ est.matches[i] = Match(1, NoPrevious)
                     /\ est.cost[i] = LiteralCost(est, i, B)
                ELSE /\ \A L \in cheapest : L <= est.matches[i].length
                     /\ est.matches[i].length \in cheapest
                     /\ est.matches[i].distance = m.distance
                     /\ est.cost[i] = LengthCost(est, i, est.matches[i].length)

\* a position where a match costs as much as the literal, and one where two
\* lengths cost the same
C22_Witness ==
  /\ Candidates
  /\ LET B   == nextBlock - lastBlock
         est == estimateCosts(matches, B)
     IN /\ \E i \in 0..(B - 1 - BlockEndLiterals) :
             LET m == ClampLength(matches[i], i, B)
             IN /\ ~SameLetter(m)
                /\ \E L \in Cheapest(est, i, B, m) :
                     LengthCost(est, i, L) = LiteralCost(est, i, B)
        /\ \E i \in 0..(B - 1 - BlockEndLiterals) :
             LET m == ClampLength(matches[i], i, B)
             IN ~SameLetter(m) /\ Cardinality(Cheapest(est, i, B, m)) > 1

\* ------------------------------------------------------------------------
\* a block read as tokens, the way the LZ4 block format lays them out

\* a length that starts with the nibble: at 15 the bytes from blk[p] on are
\* added, up to and including the first one below 255; n: the length, p: the
\* index after it
RECURSIVE FieldLength(_, _, _)
FieldLength(blk, p, n) ==
  IF n < 15 THEN [n |-> n, p |-> p]
  ELSE IF blk[p] = 255 THEN [FieldLength(blk, p + 1, 15) EXCEPT !.n = @ + 255 + (n - 15)]
  ELSE [n |-> n + blk[p], p |-> p + 1]

\* the tokens from blk[p] on: the literals, and the match (length 0 in a
\* token that ends with its literals) with the token's low nibble
RECURSIVE Tokens(_, _)
Tokens(blk, p) ==
  IF p > Len(blk) THEN <<>>
  ELSE LET lit  == FieldLength(blk, p + 1, blk[p] \div 16)
           at   == lit.p + lit.n
           run  == SubSeq(blk, lit.p, at - 1)
           len  == FieldLength(blk, at + 2, blk[p] % 16)
       IN IF at > Len(blk)
            THEN <<[literals |-> run, length |-> 0, distance |-> 0, nibble |-> blk[p] % 16]>>
            ELSE <<[literals |-> run, length |-> len.n + MinMatch,
                    distance |-> blk[at] + 256 * blk[at + 1], nibble |-> blk[p] % 16]>>
                 \o Tokens(blk, len.p)

\* the block position where token k starts
RECURSIVE TokenStart(_, _)
TokenStart(ts, k) ==
  IF k = 1 THEN 0
  ELSE TokenStart(ts, k - 1) + Len(ts[k - 1].literals) + ts[k - 1].length

\* C23: the block the token writer emits for the decision vector in matches
\* is a sequence of tokens whose literals and matches add up to the block
\* size; every token but the last carries a match and its distance, the last
\* one literals only (low nibble 0); the literals are those of the block,
\* every match of the vector met on the way is written, none twice.
C23_TokenStream ==
  pc = "output" /\ maxChainLength # 0 =>
    LET ts == Tokens(block, 1)
        B  == nextBlock - lastBlock
    IN /\ ts # <<>>
       /\ TokenStart(ts, Len(ts) + 1) = B
       /\ ts[Len(ts)].length = 0 /\ ts[Len(ts)].nibble = 0
       /\ \A k \in 1..Len(ts) :
            LET start == TokenStart(ts, k)
                at    == start + Len(ts[k].literals)
            IN /\ \A j \in 1..Len(ts[k].literals) :
                    /\ ~isMatch(matches[start + j - 1])
                    /\ ts[k].literals[j] = data[lastBlock - dataZero + start + j]
               /\ k < Len(ts) =>
                    /\ isMatch(matches[at])
                    /\ ts[k].length = matches[at].length
                    /\ ts[k].distance = matches[at].distance
                    /\ ts[k].nibble = Min(ts[k].length - MinMatch, 15)

\* a block of three tokens or more, one of them with literals before its
\* match and one without
C23_Witness ==
  /\ pc = "output" /\ maxChainLength # 0
  /\ LET ts == Tokens(block, 1)
     IN /\ Len(ts) >= 3
        /\ \E k \in 1..(Len(ts) - 1) : ts[k].literals # <<>>
        /\ \E k \in 1..(Len(ts) - 1) : ts[k].literals = <<>>

\* the length bytes as the format describes them: x \div 255 bytes 255 and
\* one byte x % 255
Extended(x) == [k \in 1..(x \div 255) |-> 255] \o <<x % 255>>

\* C24: a run of n literals is written with the high nibble min(n, 15) and,
\* from 15 on, the extended bytes of n - 15; a match of length L with the low
\* nibble min(L - 4, 15) and, from 19 on, the extended bytes of L - 19 after
\* the distance; token, distance and length bytes of a match are as many as
\* the cost estimateCosts charges for it; unlz4 reads n and L back.
C24_LengthFields ==
  /\ lpc \in {"written", "parsed"} /\ field = "literals" =>
       LET n   == fieldLength
           ext == IF n >= 15 THEN Extended(n - 15) ELSE <<>>
       IN /\ fieldBytes[1] \div 16 = Min(n, 15)
          /\ SubSeq(fieldBytes, 2, 1 + Len(ext)) = ext
          /\ Len(fieldBytes) = 1 + Len(ext) + n + 2 + 1 + BlockEndLiterals
  /\ lpc \in {"written", "parsed"} /\ field = "match" =>
       LET L   == fieldLength
           ext == IF L >= 19 THEN Extended(L - 19) ELSE <<>>
       IN /\ fieldBytes[1] % 16 = Min(L - 4, 15)
          /\ SubSeq(fieldBytes, 5, 4 + Len(ext)) = ext
          /\ Len(fieldBytes) = 1 + 1 + 2 + Len(ext) + 1 + BlockEndLiterals
          /\ Len(fieldBytes) - 1 - (1 + BlockEndLiterals) = MatchCost(L)
  /\ lpc = "parsed" => parsed = fieldLength

\* a match length with two length bytes, the last of them 0, read back
C24_Witness ==
  /\ lpc = "parsed" /\ field = "match"
  /\ fieldLength = 19 + 255
  /\ SubSeq(fieldBytes, 5, 6) = <<255, 0>>
  /\ parsed = fieldLength

\* the match finder run on the block about to be searched
Found(junk, noDist) ==
  findMatches(Buf(data, dataZero, junk), lastBlock, nextBlock, maxChainLength, noDist,
              lastHash, previousHash, previousExact, writtenBy)

\* C25: in greedy mode (maxChainLength 1..3), after findLongestMatch found a
\* match of length L at block position i, it does not run at the L - 1
\* positions i+1 .. i+L-1, and it runs at i+L when the loop gets to the skip
\* counter there.
C25_GreedySkip ==
  pc = "find" /\ maxChainLength \in 1..ShortChainsGreedy =>
    \A junk \in JunkBytes, noDist \in JunkDistances :
      LET f == Found(junk, noDist)
      IN \A i \in f.searched :
           isMatch(f.matches[i]) =>
             /\ \A k \in 1..(f.matches[i].length - 1) : i + k \notin f.searched
             /\ i + f.matches[i].length \in f.reached =>
                  i + f.matches[i].length \in f.searched

\* how many bytes of the input at q and at p are the same, up to stop
Common(q, p, stop) ==
  CHOOSE k \in 0..(stop - p) :
    /\ \A j \in 0..(k - 1) : file[q + j + 1] = file[p + j + 1]
    /\ k = stop - p \/ file[q + k + 1] # file[p + k + 1]

\* the longest of them over the positions q at 1 .. MaxDistance before p
LongestCommon(p, stop) ==
  LET from == IF p > MaxDistance THEN p - MaxDistance ELSE 0
      S == {Common(q, p, stop) : q \in from..(p - 1)}
  IN IF S = {} THEN 0 ELSE CHOOSE x \in S : \A y \in S : y <= x

\* C26: at unlimited chain length, wherever findLongestMatch runs it returns
\* the longest run of bytes equal to those at an earlier position at most
\* MaxDistance back (up to the block-end limit), and no match exactly when
\* that is shorter than MinMatch.
C26_LongestMatch ==
  pc = "find" /\ maxChainLength = 65535 =>
    \A junk \in JunkBytes, noDist \in JunkDistances :
      LET f == Found(junk, noDist)
      IN \A i \in f.searched :
           LET best == LongestCommon(lastBlock + i, MatchEnd(nextBlock))
           IN IF best < MinMatch THEN ~isMatch(f.matches[i])
              ELSE f.matches[i].length = best

\* C27: every entry of previousHash and previousExact is NoPrevious or a
\* distance in 1..MaxDistance; every position a walk of findLongestMatch
\* comes to lies 1..MaxDistance before the position searched, starts with
\* the same four bytes of the input, and wrote the entry of previousExact the
\* walk reads there.
C27_ExactChain ==
  pc = "find" =>
    \A junk \in JunkBytes, noDist \in JunkDistances :
      LET f == Found(junk, noDist)
      IN /\ \A k \in 0..(PreviousSize - 1) :
              /\ f.previousHash[k] \in 0..MaxDistance
              /\ f.previousExact[k] \in 0..MaxDistance
         /\ \A w \in f.walks :
              /\ w.total \in 1..MaxDistance
              /\ w.pos - w.total >= 0
              /\ SubSeq(file, w.pos - w.total + 1, w.pos - w.total + 4)
                   = SubSeq(file, w.pos + 1, w.pos + 4)
              /\ w.own

\* C28: every position where the match finder reads four bytes of the input
\* buffer, at dataBlock + i (the look-back positions included) and at the
\* position taken from lastHash and the hash chain, lies in the buffer:
\* dataZero <= p and p + 4 <= numRead.
C28_ReadsInBuffer ==
  pc = "find" =>
    \A junk \in JunkBytes, noDist \in JunkDistances :
      \A p \in Found(junk, noDist).read : dataZero <= p /\ p + 4 <= numRead

\* the size word and payload of the block [from, to) of X for
\* the matches found
SentBlock(X, D, from, to, maxChain, found) ==
  LET size == to - from
      best == IF NeedsCosts(size, maxChain)
                THEN estimateCosts(found, size).matches
                ELSE found
      encoded == IF maxChain = 0 THEN <<>>
                 ELSE selectBestMatches(best, size, D, from)
      useCompression == UseCompression(Len(encoded), size, maxChain)
      payload == IF useCompression THEN encoded ELSE SubSeq(X, from + 1, to)
  IN SizeWord(Len(payload), useCompression) \o payload

\* what compress sends for an input X of at most two blocks when every chunk
\* of getBytes ends at the block border: the second block is searched with
\* the last MaxDistance bytes of the first one in front of it
compressAtBorders(X, maxChain, junk, noDist) ==
  LET none   == [k \in 0..(PreviousSize - 1) |-> NoPrevious]
      border == Min(MaxBlockSize, Len(X))
      zero   == IF border > MaxDistance THEN border - MaxDistance ELSE 0
      first  == Buf(SubSeq(X, 1, border), 0, junk)
      found  == findMatches(first, 0, border, maxChain, noDist, <<>>, none, none,
                            [k \in 0..(PreviousSize - 1) |-> -1])
      second == Buf(SubSeq(X, zero + 1, Len(X)), zero, junk)
      more   == findMatches(second, border, Len(X), maxChain, noDist, found.lastHash,
                            found.previousHash, found.previousExact, found.writtenBy)
  IN Header
     \o (IF Len(X) = 0 THEN <<>>
         ELSE SentBlock(X, first, 0, border, maxChain, found.matches))
     \o (IF Len(X) <= border THEN <<>>
         ELSE SentBlock(X, second, border, Len(X), maxChain, more.matches))
     \o Terminator

\* C29: what compress has sent for an input and a maxChainLength does not
\* depend on the chunks getBytes delivered: it is what compress sends when
\* every chunk ends at a block border (stated for inputs of at most two
\* blocks).
C29_ChunkingIndependent ==
  pc = "done" /\ Len(file) <= 2 * MaxBlockSize =>
    \E junk \in JunkBytes, noDist \in JunkDistances :
      out = compressAtBorders(file, maxChainLength, junk, noDist)

\* a step of compress can be taken: the guards of the actions of Next
CanStep ==
  \/ pc \in {"call", "header", "find", "select", "output"}
  \/ pc = "read" /\ numRead - nextBlock < MaxBlockSize /\ numRead < Len(file)
  \/ pc = "read" /\ (numRead - nextBlock >= MaxBlockSize \/ numRead = Len(file))
  \/ pc = "borders" /\ nextBlock # numRead
  \/ pc = "borders" /\ nextBlock = numRead
  \/ pc = "costs" /\ NeedsCosts(nextBlock - lastBlock, maxChainLength)
  \/ pc = "costs" /\ ~NeedsCosts(nextBlock - lastBlock, maxChainLength)
  \/ pc = "trim" /\ Len(data) > MaxDistance
  \/ pc = "trim" /\ Len(data) <= MaxDistance

\* C30: compress goes on until it has returned, the terminator being the last
\* thing sent: wherever it is, it has returned or takes a step; and the loop
\* over the hash chain, the walk of findLongestMatch and the loop of the
\* token writer come to their end within the iterations their progress
\* allows (MaxDistance + 1, and the block size + 1).
C30_Terminates ==
  /\ pc = "done" \/ CanStep
  /\ pc = "done" => SubSeq(out, Len(out) - 3, Len(out)) = Terminator
  /\ pc = "find" =>
       \A junk \in JunkBytes, noDist \in JunkDistances :
         LET f == Found(junk, noDist) IN f.ended /\ f.done
  /\ pc = "select" /\ maxChainLength # 0 =>
       SelectAll(matches, nextBlock - lastBlock, Buf(data, dataZero, 0), lastBlock).done

====
